---------------------------- MODULE Spec2Model ----------------------------
(***************************************************************************)
(* Model of the multi-source search orchestration of deep-search:          *)
(*   backend/models.py          SearchSource, SearchResult, SearchProgress *)
(*   backend/search_modules.py  GoogleSearchModule, DuckDuckGoSearchModule,*)
(*                              WikipediaSearchModule,                     *)
(*                              ParallelSearchManager                      *)
(*   backend/azure_openai_client.py  AzureOpenAIClient.synthesize_results  *)
(*   backend/main.py            POST /search, GET /search/stream/{query}   *)
(*                                                                         *)
(* The specifications of the module:                                       *)
(*   Spec          one ParallelSearchManager.search_parallel call, with    *)
(*                 the per-source deadlines measured by a clock in seconds;*)
(*   GoogleSpec    one GoogleSearchModule.search call, one step per        *)
(*                 retrieval strategy of its fallback chain;               *)
(*   ModuleSpec    one search_parallel call for one source, the module's   *)
(*                 search() run against every reply of its upstream;       *)
(*   TwoCallsSpec  two search_parallel calls interleaved on one manager;   *)
(*   SynthSpec     one AzureOpenAIClient.synthesize_results call;          *)
(*   HttpSpec      two POST /search requests in flight;                    *)
(*   EnvSpec       GoogleSearchModule.search calls while the environment   *)
(*                 variables of the credentials are set and deleted;       *)
(*   StreamSpec    one GET /search/stream/{query} response;                *)
(*   StreamFairSpec  the same, the generator running whenever it can;      *)
(*   WaitSpec      one module search awaited under asyncio.wait_for, with  *)
(*                 the executor thread its strategies run in.              *)
(*                                                                         *)
(* Text is modelled as a triple <<tag, a, i>>: a literal of the source is  *)
(* its own tag, an f-string is its literal part with the interpolated      *)
(* values, and a string handed back by an upstream service is tagged with  *)
(* the field, the service and the position it came from.                   *)
(***************************************************************************)
EXTENDS Integers, Sequences, FiniteSets, TLC

\* ------------------------------------------------------------------ bounds
\* Longest `sources` list of a search_parallel call.
MaxSources == 2
\* Largest max_results / max_results_per_source.
MaxN == 2
\* Most records an upstream service or library hands back in one reply.
MaxUp == 2
\* Milliseconds the clock of the request handler runs for.
MaxClock == 1

\* ------------------------------------------------------------- data model
GOOGLE == "google"
DUCKDUCKGO == "duckduckgo"
WIKIPEDIA == "wikipedia"
REDDIT == "reddit"

SearchSource == {GOOGLE, DUCKDUCKGO, WIKIPEDIA, REDDIT}

Queries == {"q1", "q2"}

Txt(tag, a, i) == <<tag, a, i>>

EmptyStr == Txt("", "", 0)

SearchResult(source, title, url, snippet) ==
  [source |-> source, title |-> title, url |-> url, snippet |-> snippet]

\* dict.get(key, default)
Get(d, key, default) == IF key \in DOMAIN d THEN d[key] ELSE default

\* A record handed back by service `origin` at position j, holding `keys`.
MkItem(origin, j, keys) == [k \in keys |-> Txt(k, origin, j)]

\* seq[:n] for n >= 0
Take(seq, n) == IF Len(seq) <= n THEN seq ELSE SubSeq(seq, 1, n)

\* All sequences over S of length at most n.
SeqUpTo(S, n) == UNION {[1..k -> S] : k \in 0..n}


\* --------------------------------------------------- GoogleSearchModule
\* The four retrieval strategies, in the order search() tries them.
Strategies == <<"google_api", "serpapi", "web_scraping", "googlesearch_library">>

PlaceholderSnippet(q) == Txt("Google search result for: ", q, 0)

\* Items of search_data: a SearchResult object, a dict or a str.
Obj(r) == [type |-> "SearchResult", v |-> r]
Dict(d) == [type |-> "dict", v |-> d]
Str(s) == [type |-> "str", v |-> s]

\* The records an API reply can hold: with every field, without a snippet,
\* without a link.
ApiKeySets == {{"title", "link", "snippet"}, {"title", "link"}, {"title", "snippet"}}

\* A reply of the Custom Search API or of SerpAPI. kind: "nocreds" (the
\* credentials are not set), "exception" (the request or the parsing
\* raised), "status" (an HTTP status other than 200), "ok" (200, `items`
\* being the records of the reply).
ApiReply(kind, items) == [kind |-> kind, items |-> items]

ApiItems(origin) ==
  { [j \in 1..Len(ks) |-> MkItem(origin, j, ks[j])] : ks \in SeqUpTo(ApiKeySets, MaxUp) }

ApiReplies(origin) ==
  {ApiReply(k, <<>>) : k \in {"nocreds", "exception", "status"}}
    \cup {ApiReply("ok", items) : items \in ApiItems(origin)}

\* The SearchResult try_google_api and try_serpapi build from one record.
ApiResult(item) ==
  SearchResult(GOOGLE,
               Get(item, "title", Txt("Google Result", "", 0)),
               Get(item, "link", EmptyStr),
               Get(item, "snippet", Txt("No snippet available", "", 0)))

\* The strategy handing back a record of its failure.
try_google_apiErrorRecord(reply, max_results) ==
  IF reply.kind = "ok"
  THEN LET items == Take(reply.items, max_results)
       IN  [j \in 1..Len(items) |-> Obj(ApiResult(items[j]))]
  ELSE <<Obj(SearchResult(GOOGLE, Txt("error", reply.kind, 0), EmptyStr, EmptyStr))>>

try_google_api(reply, max_results) ==
  IF reply.kind = "ok"
  THEN LET items == Take(reply.items, max_results)
       IN  [j \in 1..Len(items) |-> Obj(ApiResult(items[j]))]
  ELSE <<>>

try_serpapi(reply, max_results) ==
  IF reply.kind = "ok"
  THEN LET items == Take(reply.items, max_results)
       IN  [j \in 1..Len(items) |-> Obj(ApiResult(items[j]))]
  ELSE <<>>

\* One regex match of the scraper: (url, title, snippet) after the tags are
\* stripped. shape: "full", "nosnippet" (empty snippet), "badurl" (the url
\* does not start with http), "notitle" (empty title).
MatchShapes == {"full", "nosnippet", "badurl", "notitle"}

Match(domain, j, shape) ==
  [url |-> IF shape = "badurl" THEN Txt("/url", domain, j) ELSE Txt("http", domain, j),
   title |-> IF shape = "notitle" THEN EmptyStr ELSE Txt("title", domain, j),
   snippet |-> IF shape = "nosnippet" THEN EmptyStr ELSE Txt("snippet", domain, j)]

StartsWithHttp(url) == url[1] = "http"

\* The dicts one pattern's matches add to scrape_results.
RECURSIVE ScrapeMatches(_, _)
ScrapeMatches(matches, q) ==
  IF matches = <<>> THEN <<>>
  ELSE LET m == Head(matches)
           rest == ScrapeMatches(Tail(matches), q)
       IN  IF StartsWithHttp(m.url) /\ m.title # EmptyStr
           THEN <<Dict([title |-> m.title, url |-> m.url,
                        snippet |-> IF m.snippet # EmptyStr THEN m.snippet
                                    ELSE PlaceholderSnippet(q)])>> \o rest
           ELSE rest

\* The loop over the patterns of one page: the first pattern that leaves
\* scrape_results non-empty ends the scrape.
RECURSIVE ScrapePatterns(_, _, _)
ScrapePatterns(patterns, q, max_results) ==
  IF patterns = <<>> THEN <<>>
  ELSE LET found == ScrapeMatches(Take(Head(patterns), max_results), q)
       IN  IF found # <<>> THEN Take(found, max_results)
           ELSE ScrapePatterns(Tail(patterns), q, max_results)

\* The loop over the Google domains: a page is {kind, patterns}, kind being
\* "exception", "status" (not 200) or "ok".
RECURSIVE ScrapeDomains(_, _, _)
ScrapeDomains(pages, q, max_results) ==
  IF pages = <<>> THEN <<>>
  ELSE LET page == Head(pages)
           found == IF page.kind = "ok"
                    THEN ScrapePatterns(page.patterns, q, max_results)
                    ELSE <<>>
       IN  IF found # <<>> THEN found
           ELSE ScrapeDomains(Tail(pages), q, max_results)

try_web_scraping(reply, q, max_results) ==
  IF reply.kind = "ok" THEN ScrapeDomains(reply.pages, q, max_results) ELSE <<>>

Domains == <<"www.google.com", "www.google.co.uk", "www.google.ca">>

Page(kind, patterns) == [kind |-> kind, patterns |-> patterns]

\* Pages of one domain: failing, or one of the three patterns matching.
DomainPages(domain) ==
  {Page(k, <<>>) : k \in {"exception", "status"}}
    \cup { Page("ok", [p \in 1..3 |-> IF p = hit
                                       THEN [j \in 1..Len(sh) |-> Match(domain, j, sh[j])]
                                       ELSE <<>>])
           : hit \in 1..3, sh \in SeqUpTo(MatchShapes, MaxUp) }

\* Replies of the scraper: the whole attempt raising, or the domains before
\* the d-th failing alike and the d-th answering.
ScrapeReplies ==
  {[kind |-> "exception", pages |-> <<>>]}
    \cup { [kind |-> "ok",
            pages |-> [i \in 1..3 |-> IF i < d THEN Page(fk, <<>>)
                                      ELSE IF i = d THEN pg ELSE Page("status", <<>>)]]
           : d \in 1..3, fk \in {"exception", "status"},
             pg \in UNION {DomainPages(Domains[i]) : i \in 1..3} }

try_googlesearch_library(reply, q, max_results) ==
  IF reply.kind = "ok"
  THEN LET urls == Take(reply.urls, max_results)
       IN  [i \in 1..Len(urls) |->
              Dict([title |-> Txt("Google Result", "", i),
                    url |-> urls[i],
                    snippet |-> PlaceholderSnippet(q)])]
  ELSE <<>>

LibraryReplies ==
  {[kind |-> "exception", urls |-> <<>>]}
    \cup { [kind |-> "ok", urls |-> [j \in 1..k |-> Txt("http", "googlesearch", j)]]
           : k \in 0..MaxUp }

\* The conversion reading the dicts' url under the APIs' key.
RECURSIVE ConvertResultsLinkKey(_, _, _)
ConvertResultsLinkKey(search_data, results, q) ==
  IF search_data = <<>> THEN results
  ELSE LET item == Head(search_data)
           next ==
             IF item.type = "SearchResult" THEN Append(results, item.v)
             ELSE Append(results,
                    SearchResult(GOOGLE,
                                 Get(item.v, "title", Txt("Google Result", "", 0)),
                                 Get(item.v, "link", EmptyStr),
                                 Get(item.v, "snippet", PlaceholderSnippet(q))))
       IN  ConvertResultsLinkKey(Tail(search_data), next, q)

\* Lines 225-241: search_data to SearchResult objects.
RECURSIVE ConvertResults(_, _, _)
ConvertResults(search_data, results, q) ==
  IF search_data = <<>> THEN results
  ELSE LET item == Head(search_data)
           next ==
             IF item.type = "SearchResult" THEN Append(results, item.v)
             ELSE IF item.type = "dict"
               THEN Append(results,
                      SearchResult(GOOGLE,
                                   Get(item.v, "title", Txt("Google Result", "", 0)),
                                   Get(item.v, "url", EmptyStr),
                                   Get(item.v, "snippet", PlaceholderSnippet(q))))
             ELSE IF item.type = "str"
               THEN Append(results,
                      SearchResult(GOOGLE,
                                   Txt("Google Result", "", Len(results) + 1),
                                   item.v,
                                   PlaceholderSnippet(q)))
             ELSE results
       IN  ConvertResults(Tail(search_data), next, q)

\* Line 248: return results[:max_results]
GoogleReturn(search_data, q, max_results) ==
  Take(ConvertResults(search_data, <<>>, q), max_results)

\* Lines 212-248 as one function of the replies the four strategies get:
\* replies[i] is what strategy i would be answered if it were attempted.
GoogleSearch(replies, q, max_results) ==
  LET d1 == try_google_api(replies[1], max_results)
      d2 == IF d1 = <<>> THEN try_serpapi(replies[2], max_results) ELSE d1
      d3 == IF d2 = <<>> THEN try_web_scraping(replies[3], q, max_results) ELSE d2
      d4 == IF d3 = <<>> THEN try_googlesearch_library(replies[4], q, max_results) ELSE d3
  IN  GoogleReturn(d4, q, max_results)

\* ----------------------------------------------- DuckDuckGoSearchModule
DdgKeySets == {{"title", "href", "body"}, {"title", "link", "snippet"}, {"title"}}

\* What one DDGS().text call does: it raises, or it hands back records.
DdgsReply(kind, items) == [kind |-> kind, items |-> items]

DdgsItems ==
  { [j \in 1..Len(ks) |-> Dict(MkItem("ddgs", j, ks[j]))] : ks \in SeqUpTo(DdgKeySets, MaxUp) }

DdgsReplies ==
  {DdgsReply("exception", <<>>)} \cup {DdgsReply("ok", items) : items \in DdgsItems}

\* Lines 266-295: the configured attempt, then the minimal one if it raised.
run_ddgs_search(first, second) ==
  IF first.kind = "ok" THEN first.items
  ELSE IF second.kind = "ok" THEN second.items
  ELSE <<>>

RECURSIVE DdgConvert(_)
DdgConvert(items) ==
  IF items = <<>> THEN <<>>
  ELSE LET item == Head(items)
       IN  IF item.type = "dict"
           THEN <<SearchResult(DUCKDUCKGO,
                    Get(item.v, "title", Txt("No title", "", 0)),
                    Get(item.v, "href", Get(item.v, "link", EmptyStr)),
                    Get(item.v, "body",
                        Get(item.v, "snippet", Txt("No snippet available", "", 0))))>>
                \o DdgConvert(Tail(items))
           ELSE DdgConvert(Tail(items))

\* Lines 297-313. max_results is only handed to the library.
DuckDuckGoSearch(first, second, max_results) ==
  LET ddgs_results == run_ddgs_search(first, second)
  IN  IF ddgs_results = <<>> THEN <<>> ELSE DdgConvert(ddgs_results)

\* ------------------------------------------------ WikipediaSearchModule
\* What fetching the summary and the page of one title does: "ok", "error"
\* (either call raises), "disambig_ok" (DisambiguationError, and the first
\* option is fetched), "disambig_error" (the first option's fetch raises),
\* "disambig_empty" (DisambiguationError without options).
Fetches == {"ok", "error", "disambig_ok", "disambig_error", "disambig_empty"}

WikiReply(kind, fetches) == [kind |-> kind, fetches |-> fetches]

WikiReplies ==
  {WikiReply("exception", <<>>)}
    \cup {WikiReply("ok", f) : f \in SeqUpTo(Fetches, MaxUp)}

\* The loop ended by the first title whose fetch fails.
RECURSIVE WikiResultsUntilFailure(_, _)
WikiResultsUntilFailure(fetches, j) ==
  IF j > Len(fetches) THEN <<>>
  ELSE IF fetches[j] = "ok"
  THEN <<SearchResult(WIKIPEDIA, Txt("title", "wikipedia", j),
                      Txt("url", "wikipedia", j),
                      Txt("summary", "wikipedia", j))>> \o WikiResultsUntilFailure(fetches, j + 1)
  ELSE IF fetches[j] = "disambig_ok"
  THEN <<SearchResult(WIKIPEDIA, Txt("option", "wikipedia", j),
                      Txt("option url", "wikipedia", j),
                      Txt("option summary", "wikipedia", j))>>
         \o WikiResultsUntilFailure(fetches, j + 1)
  ELSE <<>>

\* Lines 336-377, for the titles j..Len(fetches) of the (truncated) list.
RECURSIVE WikiResults(_, _)
WikiResults(fetches, j) ==
  IF j > Len(fetches) THEN <<>>
  ELSE LET rest == WikiResults(fetches, j + 1)
       IN  IF fetches[j] = "ok"
           THEN <<SearchResult(WIKIPEDIA, Txt("title", "wikipedia", j),
                               Txt("url", "wikipedia", j),
                               Txt("summary", "wikipedia", j))>> \o rest
           ELSE IF fetches[j] = "disambig_ok"
           THEN <<SearchResult(WIKIPEDIA, Txt("option", "wikipedia", j),
                               Txt("option url", "wikipedia", j),
                               Txt("option summary", "wikipedia", j))>> \o rest
           ELSE rest

\* The loop going over every title the search handed back.
WikipediaSearchUntruncated(reply, max_results) ==
  IF reply.kind = "ok" THEN WikiResults(reply.fetches, 1) ELSE <<>>

\* Lines 325-382.
WikipediaSearch(reply, max_results) ==
  IF reply.kind = "ok" THEN WikiResults(Take(reply.fetches, max_results), 1) ELSE <<>>

\* ------------------------------------------------ ParallelSearchManager
VARIABLES
  modules,      \* self.modules: the registry, source -> module
  pc,           \* "idle" (constructed), "gathering" (awaiting gather), "returned"
  query,        \* the call's query
  sources,      \* the call's sources list
  n,            \* the call's max_results_per_source
  tasks,        \* the list `tasks`, one entry per launched task
  results,      \* the dict `results` the call returns
  raised,       \* TRUE when an exception left search_parallel
  now,          \* seconds since the call
  late          \* per task, whether its abandoned search has completed after the deadline

orchVars == <<modules, pc, query, sources, n, tasks, results, raised, now, late>>

\* GoogleSearchModule.search, step by step (the actions are below).
VARIABLES
  gpc,          \* where search() stands: "idle", a strategy, "convert", "done"
  gquery,       \* query
  gmax,         \* max_results
  search_data,  \* the local search_data
  attempts,     \* the strategies attempted so far, in order
  yields,       \* what each attempt yielded, in the same order
  replied,      \* how each attempt was answered (the kind of its reply)
  greturn       \* the list search() returned

googleVars == <<gpc, gquery, gmax, search_data, attempts, yields, replied, greturn>>

\* One module's search() inside a task, with what its upstream calls did.
VARIABLES
  upstream      \* per task, the replies and the fault the search met

moduleVars == <<upstream>>

\* search_parallel calls in flight on one manager at the same time.
VARIABLES
  calls         \* per call: its arguments, its locals `tasks` and `results`

callVars == <<calls>>

\* AzureOpenAIClient.synthesize_results.
VARIABLES
  synth         \* the call: its arguments, the chat completion's reply, what it returned

synthVars == <<synth>>

\* POST /search (backend/main.py).
VARIABLES
  clock,            \* time.time() in whole milliseconds
  search_progress,  \* the module-level dict search_progress
  requests          \* per request: where its handler stands, its locals, its answer

httpVars == <<clock, search_progress, requests>>

\* The environment of the process.
VARIABLES
  environ       \* os.environ: the names of the variables that are set

envVars == <<environ>>

\* GET /search/stream/{query} (backend/main.py).
VARIABLES
  stream        \* the response: its source_list, its tasks, the events sent so far

streamVars == <<stream>>

\* asyncio.wait_for(mod.search(...), timeout) around a module's search.
VARIABLES
  waited        \* the awaited search: where its coroutine stands, its executor
                \* thread, what it has begun so far

waitVars == <<waited>>

\* The variables outside the orchestrator and the Google steps.
otherVars == <<moduleVars, callVars, synthVars, httpVars, envVars, streamVars, waitVars>>

\* Line 407: the deadline of a source, in seconds.
GoogleTimeout == 30
OtherTimeout == 15

\* One deadline for every source.
TimeoutUniform(src) == OtherTimeout

Timeout(src) == IF src = GOOGLE THEN GoogleTimeout ELSE OtherTimeout

\* Lines 391-395.
setup_modules ==
  (GOOGLE :> "GoogleSearchModule") @@ (DUCKDUCKGO :> "DuckDuckGoSearchModule")
    @@ (WIKIPEDIA :> "WikipediaSearchModule")

\* What a task hands to gather: a value, or the exception it ended with.
Value(list) == [exc |-> "none", val |-> list]
Raise(exc) == [exc |-> exc, val |-> <<>>]

\* What mod.search can do inside a task: return a list, raise an Exception,
\* or end with asyncio.CancelledError (a BaseException since Python 3.8).
Faults == {"Exception", "CancelledError"}

\* search_with_timeout without its `except Exception`.
search_with_timeoutNoExcept(event, list) ==
  IF event = "returned" THEN Value(list)
  ELSE IF event = "timeout" THEN Value(<<>>)
  ELSE Raise(event)

\* Lines 404-417. event: "returned" (mod.search returned `list` before the
\* deadline), "timeout" (wait_for raised TimeoutError), or a fault.
search_with_timeout(event, list) ==
  IF event = "returned" THEN Value(list)
  ELSE IF event = "timeout" THEN Value(<<>>)
  ELSE IF event = "Exception" THEN Value(<<>>)
  ELSE Raise(event)

\* Lines 401-423: one task per source of the list that has a module.
\* state, how and ret record what happened to mod.search (ret: the list it
\* returned); out is the result of the task itself.
Task(src) ==
  [src |-> src, state |-> "running", how |-> "none", ret |-> <<>>, out |-> Value(<<>>)]

LaunchTasks(srcs, mods) ==
  LET Registered(s) == s \in DOMAIN mods
      launched == SelectSeq(srcs, Registered)
  IN  [i \in 1..Len(launched) |-> Task(launched[i])]

\* The deadlines of tasks awaited one after the other: each wait_for starting
\* when the one before it has ended.
RECURSIVE DeadlineCumulative(_, _)
DeadlineCumulative(ts, i) ==
  IF i = 0 THEN 0 ELSE Timeout(ts[i].src) + DeadlineCumulative(ts, i - 1)

\* The deadline of task i: every wait_for starts with the call, so the
\* deadlines run side by side.
Deadline(ts, i) == Timeout(ts[i].src)

\* gather without return_exceptions: the first exception of a task is raised.
gatherFailFast(ts) ==
  [raised |-> \E i \in 1..Len(ts) : ts[i].out.exc # "none",
   completed |-> [i \in 1..Len(ts) |-> ts[i].out]]

\* Line 428: gather(..., return_exceptions=True) never raises; it hands the
\* exception of a task back as that task's result.
gather(ts) == [raised |-> FALSE, completed |-> [i \in 1..Len(ts) |-> ts[i].out]]

\* Lines 431-441 for one gathered result. An instance of Exception gives [];
\* anything else is stored if truthy, and len() of an object that is no list
\* raises TypeError, which the except of line 439 turns into [].
AggregateEntry(c) ==
  IF c.exc = "Exception" THEN <<>>
  ELSE IF c.exc # "none" THEN <<>>
  ELSE IF c.val # <<>> THEN c.val ELSE <<>>

\* The task that assigns results[s] last.
LastTask(ts, s) ==
  CHOOSE i \in 1..Len(ts) : ts[i].src = s /\ \A j \in (i+1)..Len(ts) : ts[j].src # s

\* The loop without its try: the TypeError of len() leaves search_parallel.
BuildResultsNoTry(ts, completed) ==
  [raised |-> \E i \in 1..Len(ts) : completed[i].exc \notin {"none", "Exception"},
   dict |-> [s \in {ts[i].src : i \in 1..Len(ts)} |->
               AggregateEntry(completed[LastTask(ts, s)])]]

\* The loop storing only the sources that found something.
BuildResultsNonEmpty(ts, completed) ==
  [raised |-> FALSE,
   dict |-> [s \in {t \in {ts[i].src : i \in 1..Len(ts)} :
                       AggregateEntry(completed[LastTask(ts, t)]) # <<>>} |->
               AggregateEntry(completed[LastTask(ts, s)])]]

\* The loop pairing the sources with the results in the opposite order.
BuildResultsReversed(ts, completed) ==
  [raised |-> FALSE,
   dict |-> [s \in {ts[i].src : i \in 1..Len(ts)} |->
               AggregateEntry(completed[Len(ts) + 1 - LastTask(ts, s)])]]

\* Lines 425-441: results[source] is assigned in task order, and nothing
\* is raised.
BuildResults(ts, completed) ==
  [raised |-> FALSE,
   dict |-> [s \in {ts[i].src : i \in 1..Len(ts)} |->
               AggregateEntry(completed[LastTask(ts, s)])]]

\* The abandoned search's list taking the place of the task's result.
AfterDeadlineStored(task, list) == [task EXCEPT !.out = Value(list)]

\* What an abandoned search leaves in its task when it completes after the
\* deadline: wait_for has raised TimeoutError and search_with_timeout has
\* returned [], so the task keeps its result.
AfterDeadline(task, list) == task

\* The lists the modules can return, for the replies the orchestrator is
\* run against: the first or the last strategy of the Google chain, the
\* configured DDGS call, or the Wikipedia title search, answering with k
\* complete records.
FullApiReply(origin, k) ==
  ApiReply("ok", [j \in 1..k |-> MkItem(origin, j, {"title", "link", "snippet"})])

FullScrapeReply(k) ==
  [kind |-> "ok",
   pages |-> <<Page("ok", <<[j \in 1..k |-> Match(Domains[1], j, "full")], <<>>, <<>>>>),
               Page("status", <<>>), Page("status", <<>>)>>]

FullLibraryReply(k) ==
  [kind |-> "ok", urls |-> [j \in 1..k |-> Txt("http", "googlesearch", j)]]

ChainReplies(s, k) ==
  <<IF s = 1 THEN FullApiReply("customsearch", k) ELSE ApiReply("nocreds", <<>>),
    IF s = 2 THEN FullApiReply("serpapi", k) ELSE ApiReply("nocreds", <<>>),
    IF s = 3 THEN FullScrapeReply(k) ELSE [kind |-> "exception", pages |-> <<>>],
    IF s = 4 THEN FullLibraryReply(k) ELSE [kind |-> "exception", urls |-> <<>>]>>

ModuleOutputs(src, q, max_results) ==
  IF src = GOOGLE
  THEN {GoogleSearch(ChainReplies(s, k), q, max_results) : s \in {1, 4}, k \in 0..MaxUp}
  ELSE IF src = DUCKDUCKGO
  THEN {DuckDuckGoSearch(
          DdgsReply("ok", [j \in 1..k |-> Dict(MkItem("ddgs", j, {"title", "href", "body"}))]),
          DdgsReply("exception", <<>>), max_results) : k \in 0..MaxUp}
  ELSE IF src = WIKIPEDIA
  THEN {WikipediaSearch(WikiReply("ok", [j \in 1..k |-> "ok"]), max_results) : k \in 0..MaxUp}
  ELSE {}

\* ModuleOutputs, tabulated.
Outputs == [src \in SearchSource, q \in Queries, m \in 1..MaxN |-> ModuleOutputs(src, q, m)]

NoResults == <<>>

OrchInit ==
  /\ modules = setup_modules
  /\ pc = "idle"
  /\ query = "q1"
  /\ sources = <<>>
  /\ n = 1
  /\ tasks = <<>>
  /\ results = NoResults
  /\ raised = FALSE
  /\ now = 0
  /\ late = <<>>

\* search_parallel(q, srcs, max_results_per_source) up to the await of gather.
SearchParallel(q, srcs, m) ==
  /\ pc = "idle"
  /\ pc' = "gathering"
  /\ query' = q
  /\ sources' = srcs
  /\ n' = m
  /\ tasks' = LaunchTasks(srcs, modules)
  /\ late' = [i \in 1..Len(tasks') |-> FALSE]
  /\ UNCHANGED <<modules, results, raised, now, googleVars, otherVars>>

Running(i) == pc = "gathering" /\ i \in 1..Len(tasks) /\ tasks[i].state = "running"

Settle(i, event, list) ==
  tasks' = [tasks EXCEPT ![i] = [@ EXCEPT !.state = "done", !.how = event, !.ret = list,
                                          !.out = search_with_timeout(event, list)]]

\* mod.search of task i returns `list` before its deadline has expired.
ModuleReturns(i, list) ==
  /\ Running(i)
  /\ now <= Deadline(tasks, i)
  /\ Settle(i, "returned", list)
  /\ UNCHANGED <<modules, pc, query, sources, n, results, raised, now, late, googleVars, otherVars>>

\* mod.search of task i raises.
ModuleRaises(i, fault) ==
  /\ Running(i)
  /\ now <= Deadline(tasks, i)
  /\ Settle(i, fault, <<>>)
  /\ UNCHANGED <<modules, pc, query, sources, n, results, raised, now, late, googleVars, otherVars>>

\* The deadline of task i expires with mod.search still running.
DeadlineExpires(i) ==
  /\ Running(i)
  /\ now = Deadline(tasks, i)
  /\ Settle(i, "timeout", <<>>)
  /\ UNCHANGED <<modules, pc, query, sources, n, results, raised, now, late, googleVars, otherVars>>

\* The instants the clock visits: each deadline and the second after it,
\* the call and the second after it. Between two of them no wait_for expires,
\* so every instant between them behaves like the first.
Instants(ts) ==
  UNION {{d, d + 1} : d \in {0} \cup {Deadline(ts, i) : i \in 1..Len(ts)}}

\* Time passes up to instant t: only while a task is running, and never past
\* the deadline of a running task.
TimePasses(t) ==
  /\ pc = "gathering"
  /\ \E i \in 1..Len(tasks) : tasks[i].state = "running"
  /\ t > now
  /\ \A i \in 1..Len(tasks) : tasks[i].state = "running" => t <= Deadline(tasks, i)
  /\ now' = t
  /\ UNCHANGED <<modules, pc, query, sources, n, tasks, results, raised, late, googleVars, otherVars>>

\* Waiting for the first task only.
FirstSettled(ts) == \E i \in 1..Len(ts) : ts[i].state = "done"

\* Line 428: the await of gather ends when every task has ended.
AllSettled(ts) == \A i \in 1..Len(ts) : ts[i].state = "done"

\* Every task has settled: gather hands back, the dict is built and returned.
Gather ==
  /\ pc = "gathering"
  /\ AllSettled(tasks)
  /\ LET g == gather(tasks)
         b == BuildResults(tasks, g.completed)
     IN  /\ raised' = (g.raised \/ b.raised)
         /\ results' = IF g.raised \/ b.raised THEN results ELSE b.dict
  /\ pc' = "returned"
  /\ UNCHANGED <<modules, query, sources, n, tasks, now, late, googleVars, otherVars>>

\* Task i timed out and its search is still running, unawaited.
Abandoned(i) == i \in 1..Len(tasks) /\ tasks[i].how = "timeout" /\ ~late[i]

\* The abandoned search of a timed-out task produces `list` after all.
LateCompletion(i, list) ==
  /\ Abandoned(i)
  /\ list # <<>>
  /\ late' = [late EXCEPT ![i] = TRUE]
  /\ tasks' = [tasks EXCEPT ![i] = AfterDeadline(@, list)]
  /\ UNCHANGED <<modules, pc, query, sources, n, results, raised, now, googleVars, otherVars>>

OrchNext ==
  \/ \E q \in Queries, srcs \in SeqUpTo(SearchSource, MaxSources), m \in 1..MaxN :
       SearchParallel(q, srcs, m)
  \/ \E i \in 1..Len(tasks) :
       Running(i) /\ \E list \in Outputs[tasks[i].src, query, n] : ModuleReturns(i, list)
  \/ \E i \in 1..Len(tasks), fault \in Faults : ModuleRaises(i, fault)
  \/ \E i \in 1..Len(tasks) : DeadlineExpires(i)
  \/ \E t \in Instants(tasks) : TimePasses(t)
  \/ Gather
  \/ \E i \in 1..Len(tasks) :
       Abandoned(i) /\ \E list \in Outputs[tasks[i].src, query, n] : LateCompletion(i, list)

\* ------------------------- the modules' search() inside a one-source call
\* An Exception raised in search() outside the handlers of the strategies:
\* by run_in_executor, or by the validation of SearchResult(...).
OuterFaults == {"none", "run_in_executor", "SearchResult"}

\* What the upstream calls of one search() did.
Upstream(replies, fault) == [replies |-> replies, fault |-> fault]

\* The body of the outer try of search().
SearchBody(src, up, q, max_results) ==
  IF up.fault # "none" THEN Raise("Exception")
  ELSE IF src = GOOGLE THEN Value(GoogleSearch(up.replies, q, max_results))
  ELSE IF src = DUCKDUCKGO
  THEN Value(DuckDuckGoSearch(up.replies[1], up.replies[2], max_results))
  ELSE Value(WikipediaSearch(up.replies[1], max_results))

\* search() without its outer handler.
ExceptReraises(o) == o

\* Lines 250-252, 315-317, 380-382: except Exception ... return []
ExceptReturnsEmpty(o) == IF o.exc = "Exception" THEN Value(<<>>) ELSE o

\* Lines 32-252, 260-317, 325-382.
search(src, up, q, max_results) == ExceptReturnsEmpty(SearchBody(src, up, q, max_results))

\* The replies of the Google chain in which strategy s is answered `reply`
\* and every other strategy fails.
OnlyStrategy(s, reply) ==
  <<IF s = 1 THEN reply ELSE ApiReply("nocreds", <<>>),
    IF s = 2 THEN reply ELSE ApiReply("status", <<>>),
    IF s = 3 THEN reply ELSE [kind |-> "exception", pages |-> <<>>],
    IF s = 4 THEN reply ELSE [kind |-> "exception", urls |-> <<>>]>>

StrategyReplies(s) ==
  IF s = 1 THEN ApiReplies("customsearch")
  ELSE IF s = 2 THEN ApiReplies("serpapi")
  ELSE IF s = 3 THEN ScrapeReplies
  ELSE LibraryReplies

ModuleIdle == upstream = <<>>

\* search_parallel(q, [src], m) up to the await of gather.
SearchParallelOne(q, src, m) ==
  /\ pc = "idle"
  /\ pc' = "gathering"
  /\ query' = q
  /\ sources' = <<src>>
  /\ n' = m
  /\ tasks' = LaunchTasks(<<src>>, modules)
  /\ late' = [i \in 1..Len(tasks') |-> FALSE]
  /\ upstream' = [i \in 1..Len(tasks') |-> Upstream(<<>>, "none")]
  /\ UNCHANGED <<modules, results, raised, now, googleVars, callVars, synthVars, httpVars, envVars, streamVars, waitVars>>

\* The search of task i runs against `up` and ends within the deadline.
SearchRuns(i, up) ==
  /\ upstream' = [upstream EXCEPT ![i] = up]
  /\ LET o == search(tasks[i].src, up, query, n)
     IN  Settle(i, IF o.exc = "none" THEN "returned" ELSE o.exc, o.val)
  /\ UNCHANGED <<modules, pc, query, sources, n, results, raised, now, late, googleVars,
                 callVars, synthVars, httpVars, envVars, streamVars, waitVars>>

GoogleSearchRuns(i, s, reply, fault) ==
  /\ Running(i)
  /\ tasks[i].src = GOOGLE
  /\ SearchRuns(i, Upstream(OnlyStrategy(s, reply), fault))

DuckDuckGoSearchRuns(i, first, second, fault) ==
  /\ Running(i)
  /\ tasks[i].src = DUCKDUCKGO
  /\ SearchRuns(i, Upstream(<<first, second>>, fault))

WikipediaSearchRuns(i, reply, fault) ==
  /\ Running(i)
  /\ tasks[i].src = WIKIPEDIA
  /\ SearchRuns(i, Upstream(<<reply>>, fault))

ModuleNext ==
  \/ \E q \in Queries, src \in SearchSource, m \in 1..MaxN : SearchParallelOne(q, src, m)
  \/ \E i \in 1..Len(tasks) :
       Running(i) /\ tasks[i].src = GOOGLE
         /\ \E s \in 1..4 : \E reply \in StrategyReplies(s), fault \in OuterFaults :
              GoogleSearchRuns(i, s, reply, fault)
  \/ \E i \in 1..Len(tasks) :
       Running(i) /\ tasks[i].src = DUCKDUCKGO
         /\ \E first \in DdgsReplies, second \in DdgsReplies, fault \in OuterFaults :
              DuckDuckGoSearchRuns(i, first, second, fault)
  \/ \E i \in 1..Len(tasks) :
       Running(i) /\ tasks[i].src = WIKIPEDIA
         /\ \E reply \in WikiReplies, fault \in OuterFaults :
              WikipediaSearchRuns(i, reply, fault)
  \/ Gather

\* ------------------------------ two search_parallel calls on one manager
Calls == {1, 2}

\* A call: pc is "idle", "gathering" or "returned"; tasks and results are
\* the locals of lines 399-400; interleaved records that the other call was
\* in flight while this one was.
Call(p, q, srcs, m, ts, res, ex, il) ==
  [pc |-> p, query |-> q, sources |-> srcs, n |-> m, tasks |-> ts, results |-> res,
   raised |-> ex, interleaved |-> il]

NoCalls == calls = [c \in Calls |-> Call("idle", "q1", <<>>, 1, <<>>, NoResults, FALSE, FALSE)]

\* A call that drops from the registry the sources it is not asked for.
RegistryAfterCallRequestedOnly(mods, srcs) ==
  [s \in {t \in DOMAIN mods : \E i \in 1..Len(srcs) : srcs[i] = t} |-> mods[s]]

\* Lines 397-443 read self.modules (402-403) and assign no field of self.
RegistryAfterCall(mods, srcs) == mods

\* One list of tasks for the manager, shared by the calls.
CallTasksShared(cs, c) == cs[1].tasks \o cs[2].tasks

\* Line 399: `tasks` is a local of the call.
CallTasks(cs, c) == cs[c].tasks

InFlight(c) == calls[c].pc = "gathering"

\* search_parallel(q, [src], m) is called while call c is not in flight.
CallStarts(c, q, src, m) ==
  /\ ~InFlight(c)
  /\ LET il == \E d \in Calls \ {c} : InFlight(d)
     IN  calls' = [d \in Calls |->
                     IF d = c
                     THEN Call("gathering", q, <<src>>, m, LaunchTasks(<<src>>, modules),
                               NoResults, FALSE, il)
                     ELSE [calls[d] EXCEPT !.interleaved = @ \/ InFlight(d)]]
  /\ modules' = RegistryAfterCall(modules, <<src>>)
  /\ UNCHANGED <<pc, query, sources, n, tasks, results, raised, now, late, googleVars,
                 moduleVars, synthVars, httpVars, envVars, streamVars, waitVars>>

CallRunning(c, i) ==
  InFlight(c) /\ i \in 1..Len(calls[c].tasks) /\ calls[c].tasks[i].state = "running"

CallSettle(c, i, event, list) ==
  /\ calls' = [calls EXCEPT ![c].tasks[i] =
                 [@ EXCEPT !.state = "done", !.how = event, !.ret = list,
                           !.out = search_with_timeout(event, list)]]
  /\ UNCHANGED <<orchVars, googleVars, moduleVars, synthVars, httpVars, envVars, streamVars, waitVars>>

\* mod.search of task i of call c returns `list`.
CallTaskReturns(c, i, list) == CallRunning(c, i) /\ CallSettle(c, i, "returned", list)

\* mod.search of task i of call c raises, or its deadline expires.
CallTaskFails(c, i, event) == CallRunning(c, i) /\ CallSettle(c, i, event, <<>>)

\* Lines 425-443 of call c.
CallGathers(c) ==
  /\ InFlight(c)
  /\ LET ts == CallTasks(calls, c)
         g == gather(ts)
         b == BuildResults(ts, g.completed)
     IN  /\ \A i \in 1..Len(ts) : ts[i].state = "done"
         /\ calls' = [calls EXCEPT ![c].pc = "returned",
                                    ![c].raised = g.raised \/ b.raised,
                                    ![c].results = b.dict]
  /\ UNCHANGED <<orchVars, googleVars, moduleVars, synthVars, httpVars, envVars, streamVars, waitVars>>

TwoCallsNext ==
  \/ \E c \in Calls, q \in Queries, src \in SearchSource, m \in 1..MaxN : CallStarts(c, q, src, m)
  \/ \E c \in Calls : \E i \in 1..Len(calls[c].tasks) :
       CallRunning(c, i)
         /\ \E list \in Outputs[calls[c].tasks[i].src, calls[c].query, calls[c].n] :
              CallTaskReturns(c, i, list)
  \/ \E c \in Calls : \E i \in 1..Len(calls[c].tasks), event \in Faults \cup {"timeout"} :
       CallTaskFails(c, i, event)
  \/ \E c \in Calls : CallGathers(c)

\* ------------------------------ AzureOpenAIClient.synthesize_results
\* Line 117: source_results[:5]
TopPerSource == 5

\* A value of Python: a str or None.
PyStr(text) == [type |-> "str", v |-> text]
PyNone == [type |-> "None", v |-> EmptyStr]

\* An aggregate, as the dict it is: its entries in insertion order.
Entry(source, list) == [source |-> source, results |-> list]

Entries(q, m) ==
  UNION {{Entry(src, list) : list \in Outputs[src, q, m] \cup {<<>>}} : src \in SearchSource}

Aggregates(q, m) ==
  {agg \in SeqUpTo(Entries(q, m), MaxSources) :
     \A i \in 1..Len(agg) : \A j \in 1..Len(agg) : agg[i].source = agg[j].source => i = j}

\* Lines 118-122: the lines of one result (a module's result has no score).
ResultLines(list, i) ==
  <<Txt("Title: ", list[i].title, i), Txt("URL: ", list[i].url, i),
    Txt("Content: ", list[i].snippet, i)>>

RECURSIVE SourceLines(_, _)
SourceLines(list, i) ==
  IF i > Len(list) THEN <<>> ELSE ResultLines(list, i) \o SourceLines(list, i + 1)

\* Lines 110-127.
RECURSIVE format_results_for_ai(_)
format_results_for_ai(agg) ==
  IF agg = <<>> THEN <<>>
  ELSE LET e == Head(agg)
           header == Txt("=== RESULTS ===", e.source, 0)
       IN  (IF e.results # <<>>
            THEN <<header>> \o SourceLines(Take(e.results, TopPerSource), 1)
            ELSE <<header, Txt("No results found", "", 0)>>)
           \o format_results_for_ai(Tail(agg))

\* What chat.completions.create does: it raises, or it hands back a
\* response whose choices carry a message content, which is a str or None.
ChatReply(kind, choices) == [kind |-> kind, choices |-> choices]

ChatReplies ==
  {ChatReply("exception", <<>>)}
    \cup {ChatReply("ok", cs) :
            cs \in SeqUpTo({PyStr(Txt("content", "chat", 0)), PyNone}, MaxUp)}

ErrorSynthesizing(e) == PyStr(Txt("Error synthesizing results: ", e, 0))

\* Lines 43-108. The try covers the request and response.choices[0].
synthesize_results(q, agg, reply) ==
  IF reply.kind = "exception" THEN ErrorSynthesizing("exception")
  ELSE IF reply.choices = <<>> THEN ErrorSynthesizing("list index out of range")
  ELSE reply.choices[1]

SynthIdle ==
  synth = [pc |-> "idle", query |-> "q1", results |-> <<>>, prompt |-> <<>>,
           reply |-> ChatReply("ok", <<>>), ret |-> PyNone]

\* synthesize_results(q, agg) is called and answered `reply`.
SynthesizeResults(q, agg, reply) ==
  /\ synth.pc = "idle"
  /\ synth' = [pc |-> "done", query |-> q, results |-> agg,
               prompt |-> <<Txt("Query: ", q, 0)>> \o format_results_for_ai(agg),
               reply |-> reply, ret |-> synthesize_results(q, agg, reply)]
  /\ UNCHANGED <<orchVars, googleVars, moduleVars, callVars, httpVars, envVars, streamVars, waitVars>>

SynthNext ==
  \E q \in Queries, m \in 1..MaxN :
    \E agg \in Aggregates(q, m), reply \in ChatReplies : SynthesizeResults(q, agg, reply)

\* ------------------------------------------------------- POST /search
\* dict[key] = value, and del dict[key]
Put(d, key, value) == [x \in DOMAIN d \cup {key} |-> IF x = key THEN value ELSE d[x]]
Del(d, key) == [x \in DOMAIN d \ {key} |-> d[x]]

\* models.py 31-35
SearchProgress(status, results_count) == [status |-> status, results_count |-> results_count]

\* models.py 19-22: the SearchRequest a JSON body is parsed into. `query`
\* is required; the other two fields have defaults; no field has a
\* validator, so any string and any integer are accepted.
SearchRequest(body) ==
  IF "query" \notin DOMAIN body
  THEN [kind |-> "ValidationError"]
  ELSE [kind |-> "SearchRequest",
        query |-> body.query,
        sources |-> Get(body, "sources", <<GOOGLE, DUCKDUCKGO, WIKIPEDIA>>),
        max_results_per_source |-> Get(body, "max_results_per_source", 5)]

\* The lists the module of `src` can return to search_parallel, for the
\* arguments of a request.
HttpOutputs(src, q, m) ==
  IF q \in Queries /\ m \in 1..MaxN THEN Outputs[src, q, m] ELSE ModuleOutputs(src, q, m)

\* The dicts search_parallel can return for these arguments.
ParallelResults(srcs, q, m) ==
  LET keys == {srcs[i] : i \in 1..Len(srcs)} \cap DOMAIN setup_modules
      lists == UNION {HttpOutputs(src, q, m) : src \in keys} \cup {<<>>}
  IN  {res \in [keys -> lists] : \A src \in keys : res[src] \in HttpOutputs(src, q, m) \cup {<<>>}}

\* Line 104: search_id = f"search_{int(start_time * 1000)}", for request r
\* arriving at millisecond ms.
SearchId(ms, r) == <<ms, 0>>

\* Lines 109-114.
ProgressStarted(progress, id, srcs) ==
  Put(progress, id, [src \in {srcs[i] : i \in 1..Len(srcs)} |-> SearchProgress("started", 0)])

\* Lines 125-128, when they raise KeyError: the loop has a source to go over
\* and search_progress[search_id] is gone.
ProgressKeyError(progress, id, keys) == keys # {} /\ id \notin DOMAIN progress

\* Lines 125-128.
ProgressCompleted(progress, id, res) ==
  IF DOMAIN res = {} THEN progress
  ELSE [progress EXCEPT ![id] =
          [src \in DOMAIN @ |-> IF src \in DOMAIN res
                                THEN SearchProgress("completed", Len(res[src]))
                                ELSE @[src]]]

\* formatted_results holding the sources search_parallel answered for only.
RECURSIVE FormattedResultsAnswered(_, _, _)
FormattedResultsAnswered(srcs, res, seen) ==
  IF srcs = <<>> THEN <<>>
  ELSE IF Head(srcs) \in seen \/ Head(srcs) \notin DOMAIN res
    THEN FormattedResultsAnswered(Tail(srcs), res, seen)
  ELSE <<Entry(Head(srcs), res[Head(srcs)])>>
         \o FormattedResultsAnswered(Tail(srcs), res, seen \cup {Head(srcs)})

\* Lines 131-137: formatted_results, in the insertion order of the dict.
RECURSIVE FormattedResults(_, _, _)
FormattedResults(srcs, res, seen) ==
  IF srcs = <<>> THEN <<>>
  ELSE IF Head(srcs) \in seen THEN FormattedResults(Tail(srcs), res, seen)
  ELSE <<Entry(Head(srcs), Get(res, Head(srcs), <<>>))>>
         \o FormattedResults(Tail(srcs), res, seen \cup {Head(srcs)})

\* Lines 132-137: total_results.
RECURSIVE TotalResults(_, _)
TotalResults(srcs, res) ==
  IF srcs = <<>> THEN 0
  ELSE Len(Get(res, Head(srcs), <<>>)) + TotalResults(Tail(srcs), res)

\* The handler answering without the clean-up.
ProgressKept(progress, id) == progress

\* Lines 151-152.
ProgressCleaned(progress, id) == IF id \in DOMAIN progress THEN Del(progress, id) ELSE progress

\* Lines 154-163.
SearchResponse(q, formatted_results, ai_synthesis, total_results) ==
  [kind |-> "SearchResponse", query |-> q, results |-> formatted_results,
   ai_synthesis |-> ai_synthesis, total_results |-> total_results]

\* Lines 165-173: the handler of the try. Its own loop reads
\* search_progress[search_id] and raises KeyError when the id is gone;
\* otherwise the request is answered with HTTP 500.
ExceptHandler(progress, id, srcs) ==
  IF ProgressKeyError(progress, id, {srcs[i] : i \in 1..Len(srcs)})
  THEN [progress |-> progress, answer |-> [kind |-> "KeyError"]]
  ELSE [progress |->
          IF srcs = <<>> THEN progress
          ELSE [progress EXCEPT ![id] = [src \in DOMAIN @ |-> SearchProgress("error", 0)]],
        answer |-> [kind |-> "HTTPException", status_code |-> 500]]

\* The requests the handler is run against: for one source, or for none.
HttpSources == {<<>>} \cup {<<src>> : src \in SearchSource}

\* The query of request r: each request asks its own.
HttpQuery(r) == IF r = 1 THEN "q1" ELSE "q2"

\* The JSON bodies request r is posted with: every field given and in its
\* range; an empty query; a cap of 0; a source named twice; no cap; no query.
Bodies(r) ==
  {[query |-> HttpQuery(r), sources |-> srcs, max_results_per_source |-> m] :
     srcs \in HttpSources, m \in 1..MaxN}
  \cup {[query |-> "", sources |-> <<WIKIPEDIA>>, max_results_per_source |-> 1],
        [query |-> HttpQuery(r), sources |-> <<DUCKDUCKGO>>, max_results_per_source |-> 0],
        [query |-> HttpQuery(r), sources |-> <<WIKIPEDIA, WIKIPEDIA>>,
         max_results_per_source |-> 1],
        [query |-> HttpQuery(r), sources |-> <<>>],
        [sources |-> <<>>]}

\* The replies of the chat completion the handler is run against.
HttpChatReplies == {reply \in ChatReplies : Len(reply.choices) <= 1}

Requests == {1, 2}

NoAnswer == [kind |-> "none"]

HttpIdle ==
  /\ clock = 0
  /\ search_progress = <<>>
  /\ requests = [r \in Requests |->
                   [pc |-> "none", query |-> "q1", sources |-> <<>>, n |-> 1,
                    search_id |-> SearchId(0, r),
                    formatted_results |-> <<>>, total_results |-> 0, answer |-> NoAnswer]]

Answered(r, answer) ==
  requests' = [requests EXCEPT ![r].pc = "answered", ![r].answer = answer]

\* Lines 103-122: request r arrives and awaits search_parallel.
Arrives(r, q, srcs, m) ==
  /\ requests[r].pc = "none"
  /\ LET id == SearchId(clock, r)
     IN  /\ search_progress' = ProgressStarted(search_progress, id, srcs)
         /\ requests' = [requests EXCEPT ![r] =
                           [@ EXCEPT !.pc = "searching", !.query = q, !.sources = srcs,
                                     !.n = m, !.search_id = id]]
  /\ UNCHANGED <<clock, orchVars, googleVars, moduleVars, callVars, synthVars, envVars, streamVars, waitVars>>

\* The body of request r does not parse into a SearchRequest: the framework
\* answers 422 and search(request) is not called.
Unprocessable(r, body) ==
  /\ requests[r].pc = "none"
  /\ SearchRequest(body).kind = "ValidationError"
  /\ requests' = [requests EXCEPT ![r].pc = "rejected"]
  /\ UNCHANGED <<clock, search_progress, orchVars, googleVars, moduleVars, callVars,
                 synthVars, envVars, streamVars, waitVars>>

\* A millisecond passes.
ClockTicks ==
  /\ clock < MaxClock
  /\ clock' = clock + 1
  /\ UNCHANGED <<search_progress, requests, orchVars, googleVars, moduleVars, callVars,
                 synthVars, envVars, streamVars, waitVars>>

\* Lines 118-146 and, without synthesis, 148-163: search_parallel hands
\* `res` back to request r.
SearchReturns(r, res) ==
  /\ requests[r].pc = "searching"
  /\ LET req == requests[r]
         id == req.search_id
     IN  IF ProgressKeyError(search_progress, id, DOMAIN res)
         THEN LET h == ExceptHandler(search_progress, id, req.sources)
              IN  /\ search_progress' = h.progress
                  /\ Answered(r, h.answer)
         ELSE LET progress == ProgressCompleted(search_progress, id, res)
                  formatted_results == FormattedResults(req.sources, res, {})
                  total_results == TotalResults(req.sources, res)
              IN  IF total_results > 0
                  THEN /\ search_progress' = progress
                       /\ requests' = [requests EXCEPT
                                         ![r].pc = "synthesizing",
                                         ![r].formatted_results = formatted_results,
                                         ![r].total_results = total_results]
                  ELSE /\ search_progress' = ProgressCleaned(progress, id)
                       /\ requests' = [requests EXCEPT
                                         ![r].pc = "answered",
                                         ![r].formatted_results = formatted_results,
                                         ![r].total_results = total_results,
                                         ![r].answer =
                                           SearchResponse(req.query, formatted_results,
                                                          PyNone, total_results)]
  /\ UNCHANGED <<clock, orchVars, googleVars, moduleVars, callVars, synthVars, envVars, streamVars, waitVars>>

\* Lines 143-163: synthesize_results hands its value back to request r.
\* It does not raise, so the handler of lines 144-146 is not entered.
SynthesisReturns(r, reply) ==
  /\ requests[r].pc = "synthesizing"
  /\ LET req == requests[r]
         ai_synthesis == synthesize_results(req.query, req.formatted_results, reply)
     IN  /\ search_progress' = ProgressCleaned(search_progress, req.search_id)
         /\ Answered(r, SearchResponse(req.query, req.formatted_results, ai_synthesis,
                                       req.total_results))
  /\ UNCHANGED <<clock, orchVars, googleVars, moduleVars, callVars, synthVars, envVars, streamVars, waitVars>>

HttpNext ==
  \/ \E r \in Requests : \E body \in Bodies(r) :
       LET request == SearchRequest(body)
       IN  request.kind = "SearchRequest"
             /\ Arrives(r, request.query, request.sources, request.max_results_per_source)
  \/ \E r \in Requests : \E body \in Bodies(r) : Unprocessable(r, body)
  \/ ClockTicks
  \/ \E r \in Requests :
       requests[r].pc = "searching"
         /\ \E res \in ParallelResults(requests[r].sources, requests[r].query, requests[r].n) :
              SearchReturns(r, res)
  \/ \E r \in Requests, reply \in HttpChatReplies : SynthesisReturns(r, reply)

\* ------------------------------- GoogleSearchModule.search, step by step
GoogleIdle ==
  /\ gpc = "idle"
  /\ gquery = "q1"
  /\ gmax = 1
  /\ search_data = <<>>
  /\ attempts = <<>>
  /\ yields = <<>>
  /\ replied = <<>>
  /\ greturn = <<>>

\* The fallback taken whatever search_data holds.
NotSearchDataAlways(data) == TRUE

\* Lines 215, 218, 221: `if not search_data`.
NotSearchData(data) == data = <<>>

\* A strategy that has been through is gone through again.
NextStepRetry(step) == step

\* The order of lines 213-222.
NextStep(step) ==
  IF step = "google_api" THEN "serpapi"
  ELSE IF step = "serpapi" THEN "web_scraping"
  ELSE IF step = "web_scraping" THEN "googlesearch_library"
  ELSE "convert"

\* search(q, m) is called.
GoogleSearchCall(q, m) ==
  /\ gpc = "idle"
  /\ gpc' = "google_api"
  /\ gquery' = q
  /\ gmax' = m
  /\ UNCHANGED <<search_data, attempts, yields, replied, greturn, orchVars, otherVars>>

Attempt(step, reply, data) ==
  /\ search_data' = data
  /\ attempts' = Append(attempts, step)
  /\ yields' = Append(yields, data)
  /\ replied' = Append(replied, reply.kind)
  /\ gpc' = NextStep(step)
  /\ UNCHANGED <<gquery, gmax, greturn, orchVars, otherVars>>

Skip(step) ==
  /\ gpc' = NextStep(step)
  /\ UNCHANGED <<gquery, gmax, search_data, attempts, yields, replied, greturn, orchVars,
                 otherVars>>

\* Line 213.
TryGoogleApi(reply) ==
  /\ gpc = "google_api"
  /\ Attempt("google_api", reply, try_google_api(reply, gmax))

\* Lines 215-216, attempted.
TrySerpApi(reply) ==
  /\ gpc = "serpapi"
  /\ NotSearchData(search_data)
  /\ Attempt("serpapi", reply, try_serpapi(reply, gmax))

\* Lines 218-219, attempted.
TryWebScraping(reply) ==
  /\ gpc = "web_scraping"
  /\ NotSearchData(search_data)
  /\ Attempt("web_scraping", reply, try_web_scraping(reply, gquery, gmax))

\* Lines 221-222, attempted.
TryGooglesearchLibrary(reply) ==
  /\ gpc = "googlesearch_library"
  /\ NotSearchData(search_data)
  /\ Attempt("googlesearch_library", reply,
             try_googlesearch_library(reply, gquery, gmax))

\* Lines 215, 218, 221 when search_data is not empty: the strategy is passed over.
PassOver ==
  /\ gpc \in {"serpapi", "web_scraping", "googlesearch_library"}
  /\ ~NotSearchData(search_data)
  /\ Skip(gpc)

\* Lines 224-248.
ConvertAndReturn ==
  /\ gpc = "convert"
  /\ greturn' = GoogleReturn(search_data, gquery, gmax)
  /\ gpc' = "done"
  /\ UNCHANGED <<gquery, gmax, search_data, attempts, yields, replied, orchVars, otherVars>>

GoogleNext ==
  \/ \E q \in Queries, m \in 1..MaxN : GoogleSearchCall(q, m)
  \/ \E reply \in ApiReplies("customsearch") : TryGoogleApi(reply)
  \/ \E reply \in ApiReplies("serpapi") : TrySerpApi(reply)
  \/ \E reply \in ScrapeReplies : TryWebScraping(reply)
  \/ \E reply \in LibraryReplies : TryGooglesearchLibrary(reply)
  \/ PassOver
  \/ ConvertAndReturn

\* ----------------------- GoogleSearchModule.search and the environment
\* Lines 44-45, 80: the variables the API strategies read.
GoogleApiCredentials == {"GOOGLE_API_KEY", "GOOGLE_CSE_ID"}
SerpApiCredentials == {"SERPAPI_KEY"}

\* The environment the process starts with, in which the modules are
\* constructed: every credential is set.
EnvAtConstruction == GoogleApiCredentials \cup SerpApiCredentials

\* Lines 44-47, 80-82: os.getenv at the time of the attempt; the request is
\* made if and only if each of `names` is set then.
ReadsEnviron(reply, env, names) == (reply.kind # "nocreds") = (names \subseteq env)

\* os.environ[name] is set, or deleted, by the process.
Setenv(name) ==
  /\ name \notin environ
  /\ environ' = environ \cup {name}
  /\ UNCHANGED <<orchVars, googleVars, moduleVars, callVars, synthVars, httpVars, streamVars, waitVars>>

Unsetenv(name) ==
  /\ name \in environ
  /\ environ' = environ \ {name}
  /\ UNCHANGED <<orchVars, googleVars, moduleVars, callVars, synthVars, httpVars, streamVars, waitVars>>

EnvNext ==
  \/ \E name \in EnvAtConstruction : Setenv(name)
  \/ \E name \in EnvAtConstruction : Unsetenv(name)
  \/ \E q \in Queries, m \in 1..MaxN : GoogleSearchCall(q, m)
  \/ \E reply \in ApiReplies("customsearch") :
       ReadsEnviron(reply, environ, GoogleApiCredentials) /\ TryGoogleApi(reply)
  \/ \E reply \in ApiReplies("serpapi") :
       ReadsEnviron(reply, environ, SerpApiCredentials) /\ TrySerpApi(reply)
  \/ \E reply \in ScrapeReplies : TryWebScraping(reply)
  \/ \E reply \in LibraryReplies : TryGooglesearchLibrary(reply)
  \/ PassOver
  \/ ConvertAndReturn

\* ------------------------------------------- GET /search/stream/{query}
\* Line 210: search(query, 5)
StreamCap == 5

\* The names a `sources` parameter is made of: the values of SearchSource,
\* one of them in another case and with spaces around it, and a name that
\* is none of them.
SourceNames == SearchSource \cup {" Google ", "bing"}

\* Line 191: source_name.strip().lower()
StripLower(name) == IF name = " Google " THEN "google" ELSE name

\* Lines 188-196: the names that are values of SearchSource once stripped
\* and lowered, in order; the three default sources when there is none.
source_list(names) ==
  LET IsSource(name) == StripLower(name) \in SearchSource
      recognized == SelectSeq(names, IsSource)
      parsed == [k \in 1..Len(recognized) |-> StripLower(recognized[k])]
  IN  IF parsed = <<>> THEN <<GOOGLE, DUCKDUCKGO, WIKIPEDIA>> ELSE parsed

\* The lists the modules return to the stream.
StreamOutputs == [src \in SearchSource, q \in Queries |-> ModuleOutputs(src, q, StreamCap)]

\* The events of lines 202, 219, 221, 224.
StartEvent(q) == [type |-> "start", query |-> q]
ResultsEvent(src, list) == [type |-> "results", source |-> src, results |-> list]
ErrorEvent(src, e) == [type |-> "error", source |-> src, error |-> e]
CompleteEvent == [type |-> "complete"]

StreamIdle ==
  stream = [pc |-> "idle", query |-> "q1", source_list |-> <<>>, tasks |-> <<>>,
            awaited |-> 0, events |-> <<>>, finished |-> <<>>, sent |-> <<>>]

\* Lines 216-218: the tasks are awaited one after the other, in the order
\* of the list.
NextAwaited(st) == {i \in 1..Len(st.tasks) : i = st.awaited /\ st.tasks[i].state = "done"}

\* Lines 184-213: the request arrives, the start event is sent and the
\* tasks are created. finished and sent record the order in which the
\* tasks end and the order in which their events are sent.
StreamSearch(q, names) ==
  /\ stream.pc = "idle"
  /\ stream' = [pc |-> "streaming", query |-> q, source_list |-> source_list(names),
                tasks |-> LaunchTasks(source_list(names), modules),
                awaited |-> 1, events |-> <<StartEvent(q)>>, finished |-> <<>>,
                sent |-> <<>>]
  /\ UNCHANGED <<orchVars, googleVars, moduleVars, callVars, synthVars, httpVars, envVars, waitVars>>

StreamRunning(i) ==
  stream.pc = "streaming" /\ i \in 1..Len(stream.tasks) /\ stream.tasks[i].state = "running"

StreamSettle(i, event, list) ==
  /\ stream' = [stream EXCEPT
                  !.tasks[i] = [@ EXCEPT !.state = "done", !.how = event, !.ret = list],
                  !.finished = Append(@, i)]
  /\ UNCHANGED <<orchVars, googleVars, moduleVars, callVars, synthVars, httpVars, envVars, waitVars>>

\* The search of task i returns `list`; no deadline is set on it.
StreamTaskReturns(i, list) == StreamRunning(i) /\ StreamSettle(i, "returned", list)

\* The search of task i raises.
StreamTaskRaises(i) == StreamRunning(i) /\ StreamSettle(i, "Exception", <<>>)

\* The search of task i ends.
StreamTaskEnds(i) ==
  \/ \E list \in StreamOutputs[stream.tasks[i].src, stream.query] : StreamTaskReturns(i, list)
  \/ StreamTaskRaises(i)

\* Lines 218-221: the await of task i ends and its event is sent.
StreamEmits(i) ==
  /\ stream.pc = "streaming"
  /\ i \in NextAwaited(stream)
  /\ stream' = [stream EXCEPT
                  !.events = Append(@, IF stream.tasks[i].how = "returned"
                                       THEN ResultsEvent(stream.tasks[i].src, stream.tasks[i].ret)
                                       ELSE ErrorEvent(stream.tasks[i].src, stream.tasks[i].how)),
                  !.sent = Append(@, i),
                  !.awaited = @ + 1]
  /\ UNCHANGED <<orchVars, googleVars, moduleVars, callVars, synthVars, httpVars, envVars, waitVars>>

\* Line 224: every task has been awaited.
StreamCompletes ==
  /\ stream.pc = "streaming"
  /\ stream.awaited > Len(stream.tasks)
  /\ stream' = [stream EXCEPT !.pc = "closed", !.events = Append(@, CompleteEvent)]
  /\ UNCHANGED <<orchVars, googleVars, moduleVars, callVars, synthVars, httpVars, envVars, waitVars>>

StreamNext ==
  \/ \E q \in Queries, names \in SeqUpTo(SourceNames, MaxSources) : StreamSearch(q, names)
  \/ \E i \in 1..Len(stream.tasks) :
       StreamRunning(i)
         /\ \E list \in StreamOutputs[stream.tasks[i].src, stream.query] :
              StreamTaskReturns(i, list)
  \/ \E i \in 1..Len(stream.tasks) : StreamTaskRaises(i)
  \/ \E i \in 1..Len(stream.tasks) : StreamEmits(i)
  \/ StreamCompletes

\* ------------------------------ a module's search under asyncio.wait_for
\* The thread of the default executor: what it runs, whether a worker has
\* picked it up, the domains it has requested, whether it has ended, and
\* whether it found something.
Thread(runs, state, domain, found) ==
  [runs |-> runs, state |-> state, domain |-> domain, found |-> found]

NoThread == Thread("none", "none", 0, FALSE)

\* Something the search begins: a strategy, or a request to an upstream
\* service. expired: whether the deadline of wait_for had expired by then.
Begun(what, target, expired) == [what |-> what, target |-> target, expired |-> expired]

WaitIdle ==
  waited = [pc |-> "idle", src |-> GOOGLE, expired |-> FALSE, found |-> FALSE, thread |-> NoThread,
            begun |-> <<>>]

\* Lines 404-408: search_with_timeout awaits wait_for(mod.search(...)), mod
\* being the module of `src`: the Google chain begins with the Custom Search
\* API, DuckDuckGo with run_ddgs_search.
WaitFor(src) ==
  /\ waited.pc = "idle"
  /\ waited' = [waited EXCEPT !.src = src,
                              !.pc = IF src = GOOGLE THEN "google_api" ELSE "ddgs"]
  /\ UNCHANGED <<orchVars, googleVars, moduleVars, callVars, synthVars, httpVars, envVars,
                 streamVars>>

\* Lines 213-216: a strategy of the coroutine itself (its request is awaited
\* on the event loop), or the `if not search_data` passing it over.
AwaitsApi(step, found) ==
  /\ waited.pc = step
  /\ step \in {"google_api", "serpapi"}
  /\ IF waited.found
     THEN /\ ~found
          /\ waited' = [waited EXCEPT !.pc = NextStep(step)]
     ELSE waited' = [waited EXCEPT
                       !.pc = NextStep(step),
                       !.found = found,
                       !.begun = @ \o <<Begun("strategy", step, waited.expired),
                                        Begun("request", step, waited.expired)>>]
  /\ UNCHANGED <<orchVars, googleVars, moduleVars, callVars, synthVars, httpVars, envVars,
                 streamVars>>

\* Lines 218-222 and 296: loop.run_in_executor(None, strategy), or the
\* `if not search_data` passing it over.
RunInExecutor(step) ==
  /\ waited.pc = step
  /\ step \in {"web_scraping", "googlesearch_library", "ddgs"}
  /\ waited.thread.runs = "none"
  /\ IF waited.found
     THEN waited' = [waited EXCEPT !.pc = NextStep(step)]
     ELSE waited' = [waited EXCEPT
                       !.thread = Thread(step, "queued", 0, FALSE),
                       !.begun = Append(@, Begun("strategy", step, waited.expired))]
  /\ UNCHANGED <<orchVars, googleVars, moduleVars, callVars, synthVars, httpVars, envVars,
                 streamVars>>

\* A worker of the executor picks the function up.
ThreadStarts ==
  /\ waited.thread.state = "queued"
  /\ waited' = [waited EXCEPT !.thread.state = "running"]
  /\ UNCHANGED <<orchVars, googleVars, moduleVars, callVars, synthVars, httpVars, envVars,
                 streamVars>>

\* The requests a function run in the executor can make: one per Google
\* domain (lines 139-178), the one search of the googlesearch library (line
\* 189), the configured DDGS and the minimal one (lines 268-292).
ThreadTargets(runs) ==
  IF runs = "web_scraping" THEN Domains
  ELSE IF runs = "ddgs" THEN <<"DDGS(headers, timeout)", "DDGS()">>
  ELSE <<"googlesearch">>

\* Whether the function goes on to its next request after `answer`
\* ("results", "nothing", "exception"): the scraper unless a domain gave
\* results, run_ddgs_search only when the configured DDGS raised.
ThreadGoesOn(runs, answer) ==
  IF runs = "ddgs" THEN answer = "exception" ELSE answer # "results"

\* The thread makes its next request and gets `answer`.
ThreadRequests(answer) ==
  /\ waited.thread.state = "running"
  /\ waited.thread.domain < Len(ThreadTargets(waited.thread.runs))
  /\ LET d == waited.thread.domain + 1
         targets == ThreadTargets(waited.thread.runs)
     IN  waited' = [waited EXCEPT
                      !.thread.domain = d,
                      !.thread.found = (answer = "results"),
                      !.thread.state = IF ThreadGoesOn(waited.thread.runs, answer)
                                          /\ d < Len(targets)
                                       THEN "running" ELSE "ended",
                      !.begun = Append(@, Begun("request", targets[d], waited.expired))]
  /\ UNCHANGED <<orchVars, googleVars, moduleVars, callVars, synthVars, httpVars, envVars,
                 streamVars>>

\* The function returns in its thread. A coroutine still awaiting it goes
\* on with the value; a cancelled one has left, and the value is dropped.
ThreadReturns ==
  /\ waited.thread.state = "ended"
  /\ waited' = IF waited.pc = "cancelled"
               THEN [waited EXCEPT !.thread = NoThread]
               ELSE [waited EXCEPT !.thread = NoThread,
                                   !.found = waited.thread.found,
                                   !.pc = NextStep(waited.pc)]
  /\ UNCHANGED <<orchVars, googleVars, moduleVars, callVars, synthVars, httpVars, envVars,
                 streamVars>>

\* What the cancellation of the coroutine leaves of its executor thread: a
\* function no worker has picked up is cancelled with its future; one that
\* is running cannot be stopped and runs on.
CancelledThread(thread) == IF thread.state = "queued" THEN NoThread ELSE thread

\* Lines 406-411: the timeout of wait_for expires; the coroutine is
\* cancelled where it awaits and search_with_timeout returns [].
WaitExpires ==
  /\ waited.pc \in {"google_api", "serpapi", "web_scraping", "googlesearch_library", "ddgs"}
  /\ waited' = [waited EXCEPT !.pc = "cancelled", !.expired = TRUE,
                              !.thread = CancelledThread(@)]
  /\ UNCHANGED <<orchVars, googleVars, moduleVars, callVars, synthVars, httpVars, envVars,
                 streamVars>>

\* Lines 224-250 and 298-313: the conversion, and the return within the
\* deadline.
WaitReturns ==
  /\ waited.pc = "convert"
  /\ waited' = [waited EXCEPT !.pc = "returned"]
  /\ UNCHANGED <<orchVars, googleVars, moduleVars, callVars, synthVars, httpVars, envVars,
                 streamVars>>

WaitNext ==
  \/ \E src \in {GOOGLE, DUCKDUCKGO} : WaitFor(src)
  \/ \E step \in {"google_api", "serpapi"}, found \in BOOLEAN : AwaitsApi(step, found)
  \/ \E step \in {"web_scraping", "googlesearch_library", "ddgs"} : RunInExecutor(step)
  \/ ThreadStarts
  \/ \E answer \in {"results", "nothing", "exception"} : ThreadRequests(answer)
  \/ ThreadReturns
  \/ WaitExpires
  \/ WaitReturns

\* --------------------------------------------------------- specifications
vars == <<orchVars, googleVars, otherVars>>

Init ==
  /\ OrchInit /\ GoogleIdle /\ ModuleIdle /\ NoCalls /\ SynthIdle /\ HttpIdle
  /\ environ = EnvAtConstruction
  /\ StreamIdle
  /\ WaitIdle

Next == OrchNext

\* One search_parallel call.
Spec == Init /\ [][Next]_vars

\* One GoogleSearchModule.search call.
GoogleSpec == Init /\ [][GoogleNext]_vars

\* One search_parallel call for one source, the module's search() run
\* against every reply of its upstream services.
ModuleSpec == Init /\ [][ModuleNext]_vars

\* Two search_parallel calls, each for one source, on the same manager.
TwoCallsSpec == Init /\ [][TwoCallsNext]_vars

\* One AzureOpenAIClient.synthesize_results call.
SynthSpec == Init /\ [][SynthNext]_vars

\* Two POST /search requests in flight.
HttpSpec == Init /\ [][HttpNext]_vars

\* One GoogleSearchModule.search call in a process whose environment changes.
EnvSpec == Init /\ [][EnvNext]_vars

\* One GET /search/stream response.
StreamSpec == Init /\ [][StreamNext]_vars

\* One GET /search/stream response, the event loop running the generator
\* whenever the task it awaits has ended, and every search ending but that
\* of the first task: line 210 awaits search() itself, without the wait_for
\* of search_with_timeout, so nothing ends a search that does not return.
StreamFairSpec ==
  /\ StreamSpec
  /\ WF_vars(\E i \in 1..Len(stream.tasks) : StreamEmits(i))
  /\ WF_vars(StreamCompletes)
  /\ \A i \in 2..(MaxSources + 1) :
       WF_vars(StreamRunning(i) /\ StreamTaskEnds(i))

\* One search of the Google or of the DuckDuckGo module awaited under
\* asyncio.wait_for.
WaitSpec == Init /\ [][WaitNext]_vars

\* ----------------------------------------------------------------- claims
Range(seq) == {seq[i] : i \in 1..Len(seq)}

Min(a, b) == IF a <= b THEN a ELSE b

Failed(t) == t.how \in {"timeout", "Exception", "CancelledError"}

\* Task i is the one whose result is left under its source's key.
Decides(i) == \A j \in (i+1)..Len(tasks) : tasks[j].src # tasks[i].src

C2_Isolation ==
  pc = "returned" =>
    \A i \in 1..Len(tasks) :
      (/\ tasks[i].how = "returned"
       /\ Decides(i)
       /\ \E j \in 1..Len(tasks) : tasks[j].src # tasks[i].src /\ Failed(tasks[j]))
      => /\ tasks[i].src \in DOMAIN results
         /\ results[tasks[i].src] = tasks[i].ret

C2_Witness ==
  /\ pc = "returned"
  /\ Len(tasks) = 2
  /\ tasks[1].how = "CancelledError"
  /\ tasks[2].how = "returned"
  /\ tasks[2].src # tasks[1].src
  /\ tasks[2].ret # <<>>
  /\ results[tasks[2].src] = tasks[2].ret
  /\ results[tasks[1].src] = <<>>

\* C3: no exception leaves search_parallel, whatever the tasks did; what it
\* returns maps every key to a list.
C3_NeverRaises ==
  /\ ~raised
  /\ pc = "returned" => \A s \in DOMAIN results : DOMAIN results[s] = 1..Len(results[s])

\* Every task failed, each in another way, and every key maps to [].
C3_Witness ==
  /\ pc = "returned"
  /\ ~raised
  /\ Len(tasks) = 2
  /\ tasks[1].src # tasks[2].src
  /\ tasks[1].how = "CancelledError"
  /\ tasks[2].how = "timeout"
  /\ \A s \in DOMAIN results : results[s] = <<>>

\* C4: a task whose mod.search raised an Exception ends with [] as its own
\* result (not with the exception), and the returned aggregate maps its
\* source to [] without anything being raised.
C4_ExceptionGivesEmpty ==
  \A i \in 1..Len(tasks) :
    tasks[i].how = "Exception" =>
      /\ tasks[i].out = Value(<<>>)
      /\ (pc = "returned" /\ Decides(i)) =>
           /\ ~raised
           /\ tasks[i].src \in DOMAIN results
           /\ results[tasks[i].src] = <<>>

C4_Witness ==
  /\ pc = "returned"
  /\ Len(tasks) = 2
  /\ tasks[1].src # tasks[2].src
  /\ tasks[1].how = "Exception"
  /\ tasks[2].how = "returned"
  /\ results[tasks[1].src] = <<>>
  /\ results[tasks[2].src] # <<>>

\* C5: a task still running when its deadline expires (30 s for GOOGLE, 15 s
\* for any other source) ends with [], and the aggregate maps its source to
\* []; no wait_for expires before its deadline and no task runs past it.
C5_DeadlineGivesEmpty ==
  \A i \in 1..Len(tasks) :
    LET d == IF tasks[i].src = GOOGLE THEN 30 ELSE 15
    IN  /\ tasks[i].state = "running" => now <= d
        /\ tasks[i].how = "timeout" =>
             /\ now >= d
             /\ tasks[i].out = Value(<<>>)
             /\ (pc = "returned" /\ Decides(i)) =>
                  tasks[i].src \in DOMAIN results /\ results[tasks[i].src] = <<>>

C5_Witness ==
  /\ pc = "returned"
  /\ Len(tasks) = 2
  /\ tasks[1].src = GOOGLE
  /\ tasks[2].src = WIKIPEDIA
  /\ tasks[1].how = "timeout"
  /\ tasks[2].how = "timeout"
  /\ now = 30
  /\ results[GOOGLE] = <<>>
  /\ results[WIKIPEDIA] = <<>>

\* C6: the call is never pending, and never returns, later than the largest
\* deadline among its requested sources.
C6_ReturnsByLargestDeadline ==
  LET ds == {IF s = GOOGLE THEN 30 ELSE 15 : s \in Range(sources)} \cup {0}
      largest == CHOOSE d \in ds : \A e \in ds : e <= d
  IN  pc \in {"gathering", "returned"} => now <= largest

\* Two sources that never return: the call returns at 30 s, not at 45 s.
C6_Witness ==
  /\ pc = "returned"
  /\ Len(tasks) = 2
  /\ tasks[1].src = DUCKDUCKGO
  /\ tasks[2].src = GOOGLE
  /\ tasks[1].how = "timeout"
  /\ tasks[2].how = "timeout"
  /\ now = 30

\* C7: once the deadline of a task has expired, what its search produces
\* afterwards changes neither the task's result nor the aggregate: the entry
\* stays [].
C7_LateResultDiscarded ==
  \A i \in 1..Len(tasks) :
    tasks[i].how = "timeout" =>
      /\ tasks[i].out = Value(<<>>)
      /\ (pc = "returned" /\ Decides(i)) =>
           tasks[i].src \in DOMAIN results /\ results[tasks[i].src] = <<>>

C7_Witness ==
  /\ pc = "returned"
  /\ Len(tasks) = 2
  /\ tasks[1].how = "timeout"
  /\ late[1]
  /\ tasks[2].src # tasks[1].src
  /\ tasks[2].how = "returned"
  /\ results[tasks[1].src] = <<>>

\* C8, as stated: every list of the returned aggregate has at most
\* max_results_per_source elements.
C8_AtMostN ==
  pc = "returned" => \A s \in DOMAIN results : Len(results[s]) <= n

\* The canonical SearchResult of an item a strategy yielded.
Canonical(item) ==
  IF item.type = "SearchResult" THEN item.v
  ELSE [source |-> GOOGLE, title |-> item.v.title, url |-> item.v.url,
        snippet |-> item.v.snippet]

\* C9: the strategies are attempted in the order Custom Search API, SerpAPI,
\* web scraping, googlesearch library, each only after every earlier one
\* yielded [], and none after one that yielded a result.
C9_FixedOrder ==
  /\ Len(attempts) <= 4
  /\ Len(yields) = Len(attempts)
  /\ \A j \in 1..Len(attempts) :
       /\ attempts[j] = <<"google_api", "serpapi", "web_scraping", "googlesearch_library">>[j]
       /\ j < Len(attempts) => yields[j] = <<>>

C9_Witness ==
  /\ gpc = "done"
  /\ attempts = <<"google_api", "serpapi", "web_scraping">>
  /\ yields[1] = <<>>
  /\ yields[2] = <<>>
  /\ yields[3] # <<>>

\* C10: when the first strategy to yield something yields r1..rk, search()
\* returns the canonical SearchResult of r1..r(min(k, max_results)), in that
\* order, each with source GOOGLE, and nothing else.
C10_ReturnsWinnersItems ==
  (gpc = "done" /\ attempts # <<>> /\ yields[Len(yields)] # <<>>) =>
    LET y == yields[Len(yields)]
        k == Min(Len(y), gmax)
    IN  /\ Len(greturn) = k
        /\ \A j \in 1..k : greturn[j] = Canonical(y[j]) /\ greturn[j].source = GOOGLE

C10_Witness ==
  /\ gpc = "done"
  /\ attempts = <<"google_api", "serpapi", "web_scraping">>
  /\ gmax = 2
  /\ Len(greturn) = 2
  /\ greturn[1].snippet = Txt("Google search result for: ", gquery, 0)
  /\ greturn[2].url[1] = "http"

\* C11: within one search() call no strategy is attempted twice: a strategy
\* that yielded nothing is not retried.
C11_AtMostOnce ==
  \A j \in 1..Len(attempts) : \A k \in 1..Len(attempts) :
    attempts[j] = attempts[k] => j = k

\* All four strategies yielded nothing; each was attempted once.
C11_Witness ==
  /\ gpc = "done"
  /\ Len(attempts) = 4
  /\ \A j \in 1..4 : yields[j] = <<>>
  /\ greturn = <<>>

\* What a module returns when every retrieval strategy it has yields nothing.
EmptyHanded(src, q, m) ==
  IF src = GOOGLE
  THEN GoogleSearch(<<ApiReply("nocreds", <<>>), ApiReply("status", <<>>),
                      [kind |-> "exception", pages |-> <<>>],
                      [kind |-> "ok", urls |-> <<>>]>>, q, m)
  ELSE IF src = DUCKDUCKGO
  THEN DuckDuckGoSearch(DdgsReply("exception", <<>>), DdgsReply("ok", <<>>), m)
  ELSE WikipediaSearch(WikiReply("ok", <<>>), m)

\* C12: when every retrieval strategy of a source yields nothing, the call
\* returns without raising and the aggregate has the source as a key, mapped
\* to [].
C12_AllEmptyGivesEmptyEntry ==
  pc = "returned" =>
    \A i \in 1..Len(tasks) :
      (/\ tasks[i].how = "returned"
       /\ tasks[i].ret = EmptyHanded(tasks[i].src, query, n)
       /\ Decides(i))
      => /\ ~raised
         /\ tasks[i].src \in DOMAIN results
         /\ results[tasks[i].src] = <<>>

\* GOOGLE came back empty-handed next to a source that found something.
C12_Witness ==
  /\ pc = "returned"
  /\ Len(tasks) = 2
  /\ tasks[1].src = GOOGLE
  /\ tasks[1].how = "returned"
  /\ tasks[1].ret = <<>>
  /\ tasks[2].src = DUCKDUCKGO
  /\ tasks[2].ret # <<>>
  /\ DOMAIN results = {GOOGLE, DUCKDUCKGO}
  /\ results[GOOGLE] = <<>>

\* C13: whatever Exception an upstream call raises, inside a strategy or
\* outside every strategy, search() of each module ends by returning a list
\* and not by raising.
C13_SearchNeverRaises ==
  \A i \in 1..Len(tasks) :
    tasks[i].state = "done" =>
      /\ tasks[i].how = "returned"
      /\ DOMAIN tasks[i].ret = 1..Len(tasks[i].ret)
      /\ tasks[i].out = Value(tasks[i].ret)

\* The Custom Search API answered with records and the validation of a
\* SearchResult raised: search() returned [].
C13_Witness ==
  /\ pc = "returned"
  /\ Len(tasks) = 1
  /\ tasks[1].src = GOOGLE
  /\ upstream[1].fault = "SearchResult"
  /\ upstream[1].replies[1].kind = "ok"
  /\ upstream[1].replies[1].items # <<>>
  /\ tasks[1].how = "returned"
  /\ tasks[1].ret = <<>>
  /\ results[GOOGLE] = <<>>

\* C14, as stated: every SearchResult of the returned aggregate has a
\* non-empty url, whatever records the upstream services handed back.
C14_UrlsNonEmpty ==
  pc = "returned" =>
    \A s \in DOMAIN results :
      \A j \in 1..Len(results[s]) : results[s][j].url # EmptyStr

\* C15: when the Wikipedia title search yields k titles and the summary and
\* the page url of each of the first min(k, n) are fetched, search(query, n)
\* returns min(k, n) results, the j-th carrying the j-th title with its own
\* url and summary and the source WIKIPEDIA.
C15_OnePerTitleInOrder ==
  \A i \in 1..Len(tasks) :
    (/\ tasks[i].state = "done"
     /\ tasks[i].src = WIKIPEDIA
     /\ upstream[i].fault = "none"
     /\ upstream[i].replies[1].kind = "ok"
     /\ \A j \in 1..Min(Len(upstream[i].replies[1].fetches), n) :
          upstream[i].replies[1].fetches[j] = "ok")
    => LET k == Len(upstream[i].replies[1].fetches)
       IN  /\ tasks[i].how = "returned"
           /\ Len(tasks[i].ret) = Min(k, n)
           /\ \A j \in 1..Min(k, n) :
                tasks[i].ret[j] = [source |-> WIKIPEDIA,
                                   title |-> <<"title", "wikipedia", j>>,
                                   url |-> <<"url", "wikipedia", j>>,
                                   snippet |-> <<"summary", "wikipedia", j>>]

\* Two titles found and fetched, one asked for: the first title's result.
C15_Witness ==
  /\ pc = "returned"
  /\ Len(tasks) = 1
  /\ tasks[1].src = WIKIPEDIA
  /\ n = 1
  /\ upstream[1].fault = "none"
  /\ upstream[1].replies[1] = WikiReply("ok", <<"ok", "ok">>)
  /\ Len(results[WIKIPEDIA]) = 1
  /\ results[WIKIPEDIA][1].title = <<"title", "wikipedia", 1>>

\* C16: the aggregate of each of two interleaved calls holds exactly what
\* the call's own tasks produced: its keys are the sources of its own tasks,
\* a key whose task returned a list within the deadline maps to that list,
\* which is one the module returns for this call's query and cap, and a key
\* whose task failed maps to []; what happened to the other call's tasks
\* has no part in it.
C16_CallsAreIsolated ==
  \A c \in Calls :
    calls[c].pc = "returned" =>
      LET ts == calls[c].tasks
      IN  /\ ~calls[c].raised
          /\ DOMAIN calls[c].results = {ts[i].src : i \in 1..Len(ts)}
          /\ \A i \in 1..Len(ts) :
               /\ ts[i].how = "returned" =>
                    /\ calls[c].results[ts[i].src] = ts[i].ret
                    /\ ts[i].ret \in Outputs[ts[i].src, calls[c].query, calls[c].n]
               /\ ts[i].how # "returned" => calls[c].results[ts[i].src] = <<>>

\* Two interleaved calls for GOOGLE with different queries and caps: the
\* first one's task timed out, the second one's returned two results
\* carrying its own query.
C16_Witness ==
  /\ calls[1].pc = "returned"
  /\ calls[2].pc = "returned"
  /\ calls[1].interleaved
  /\ calls[2].interleaved
  /\ calls[1].sources = <<GOOGLE>>
  /\ calls[2].sources = <<GOOGLE>>
  /\ calls[1].query = "q1"
  /\ calls[2].query = "q2"
  /\ calls[1].n = 1
  /\ calls[2].n = 2
  /\ calls[1].tasks[1].how = "timeout"
  /\ calls[1].results[GOOGLE] = <<>>
  /\ Len(calls[2].results[GOOGLE]) = 2
  /\ calls[2].results[GOOGLE][1].snippet = <<"Google search result for: ", "q2", 0>>

\* C17: whatever calls have run or are running, the registry maps exactly
\* GOOGLE, DUCKDUCKGO and WIKIPEDIA to the modules made at construction.
C17_RegistryUnchanged ==
  /\ DOMAIN modules = {GOOGLE, DUCKDUCKGO, WIKIPEDIA}
  /\ modules[GOOGLE] = "GoogleSearchModule"
  /\ modules[DUCKDUCKGO] = "DuckDuckGoSearchModule"
  /\ modules[WIKIPEDIA] = "WikipediaSearchModule"

\* Both calls have returned, interleaved, one of them for a source that
\* has no module, and the registry is as constructed.
C17_Witness ==
  /\ calls[1].pc = "returned"
  /\ calls[2].pc = "returned"
  /\ calls[1].interleaved
  /\ calls[1].sources = <<REDDIT>>
  /\ calls[2].sources = <<WIKIPEDIA>>
  /\ DOMAIN modules = {GOOGLE, DUCKDUCKGO, WIKIPEDIA}

\* C18, as stated: synthesize_results always returns a string, the content
\* of the reply or an error description beginning "Error synthesizing
\* results:", whatever the aggregate and whatever the chat completion does.
C18_ReturnsString ==
  synth.pc = "done" =>
    /\ synth.ret.type = "str"
    /\ \/ synth.ret.v[1] = "Error synthesizing results: "
       \/ synth.reply.kind = "ok" /\ synth.reply.choices # <<>>
            /\ synth.ret = synth.reply.choices[1]

\* C19, as stated: every request POST /search has answered was answered
\* with a SearchResponse, not with an HTTP 500 and not with an exception
\* leaving the handler, other requests being in flight or not.
C19_AlwaysSearchResponse ==
  \A r \in Requests :
    requests[r].pc = "answered" => requests[r].answer.kind = "SearchResponse"

\* C20, as stated: in one call, the search of the module of each requested
\* source is started exactly once: one task per requested source that has a
\* module, and no second task for the same source.
C20_OneTaskPerSource ==
  pc # "idle" =>
    \A src \in Range(sources) \cap DOMAIN modules :
      Cardinality({i \in 1..Len(tasks) : tasks[i].src = src}) = 1

\* C21: while a task the call launched has not settled the aggregate has no
\* entry and the call has not returned; once the call has returned, every
\* task has settled and the aggregate is not written again.
C21_CompleteAtReturn ==
  /\ [](pc # "returned" => results = NoResults)
  /\ [](pc = "returned" => \A i \in 1..Len(tasks) : tasks[i].state = "done")
  /\ [][pc = "returned" => (pc' = "returned" /\ results' = results)]_vars

\* The call has returned, and the search of a timed-out task has completed
\* since: the aggregate holds the other task's list and [] for this one.
C21_Witness ==
  /\ pc = "returned"
  /\ Len(tasks) = 2
  /\ tasks[1].src # tasks[2].src
  /\ tasks[1].how = "returned"
  /\ tasks[1].ret # <<>>
  /\ tasks[2].how = "timeout"
  /\ late[2]
  /\ results[tasks[1].src] = tasks[1].ret
  /\ results[tasks[2].src] = <<>>

\* C22: a strategy that fails (missing credentials, an exception, a status
\* other than 200) yields [], like one that found nothing: search() goes on
\* to the next strategy in order, attempts it, and ends by returning a list.
C22_FailureIsEmpty ==
  \A j \in 1..Len(attempts) :
    replied[j] # "ok" =>
      /\ yields[j] = <<>>
      /\ (Len(attempts) = j /\ j < 4) => (gpc = Strategies[j + 1] /\ search_data = <<>>)
      /\ (gpc \in {"convert", "done"} /\ j < 4) =>
           (Len(attempts) > j /\ attempts[j + 1] = Strategies[j + 1])

\* No credentials for the Custom Search API, a status other than 200 from
\* SerpAPI, the scraper raising, and the library's urls returned.
C22_Witness ==
  /\ gpc = "done"
  /\ replied = <<"nocreds", "status", "exception", "ok">>
  /\ attempts = Strategies
  /\ greturn # <<>>

\* C23, as stated, for DuckDuckGoSearchModule: whenever the configured DDGS
\* attempt yields no record, by raising or by handing back an empty list,
\* the minimal-configuration attempt is made, so that search() returns what
\* the minimal attempt found.
C23_NextAttemptWhenNothing ==
  \A i \in 1..Len(tasks) :
    (/\ tasks[i].state = "done"
     /\ tasks[i].src = DUCKDUCKGO
     /\ upstream[i].fault = "none"
     /\ upstream[i].replies[1].items = <<>>)
    => tasks[i].ret = DdgConvert(upstream[i].replies[2].items)

\* C24, as stated: whether search() makes the request of the Custom Search
\* API strategy, and of the SerpAPI strategy, is fixed by the credentials
\* that were set when the module was constructed, whatever has been set or
\* deleted in the environment since.
C24_CredentialsFixedAtConstruction ==
  \A j \in 1..Len(attempts) :
    /\ attempts[j] = "google_api" =>
         (replied[j] # "nocreds") = (GoogleApiCredentials \subseteq EnvAtConstruction)
    /\ attempts[j] = "serpapi" =>
         (replied[j] # "nocreds") = (SerpApiCredentials \subseteq EnvAtConstruction)

\* C25, as stated: the events of the sources are sent in the order in which
\* the search tasks complete: the k-th source event is that of the k-th
\* task to complete.
C25_EventsInCompletionOrder ==
  \A k \in 1..Len(stream.sent) : stream.sent[k] = stream.finished[k]

\* C26, as stated: search_parallel is awaited only for requests with a
\* non-empty query and a positive max_results_per_source; a request with an
\* empty query or a cap that is not positive is rejected before.
C26_OnlyValidRequestsSearch ==
  \A r \in Requests :
    requests[r].pc = "searching" => requests[r].query # "" /\ requests[r].n > 0

\* C27, as stated: a SearchResult the Google module returns carries the
\* snippet its strategy supplied for the hit or, the strategy having supplied
\* none, the placeholder "Google search result for: {query}" with the query
\* of the call; it never carries another text or the empty one.
C27_PlaceholderWhenNoSnippet ==
  gpc = "done" =>
    \A j \in 1..Len(greturn) :
      \/ greturn[j].snippet[1] = "snippet"
      \/ greturn[j].snippet = PlaceholderSnippet(gquery)

\* C28: in a returned aggregate, the entry of source s is [] or the list
\* that the search of a task launched for s returned in this call, and every
\* SearchResult of the entry has source s; no entry holds the list of a
\* task of another source.
C28_SourceAttribution ==
  (pc = "returned" /\ ~raised) =>
    \A s \in DOMAIN results :
      /\ \A k \in 1..Len(results[s]) : results[s][k].source = s
      /\ results[s] # <<>> =>
           \E i \in 1..Len(tasks) :
             /\ tasks[i].src = s
             /\ Decides(i)
             /\ tasks[i].how = "returned"
             /\ results[s] = tasks[i].ret

\* A call for two different sources has returned, both searches having
\* found something: each list is under the key of its own source.
C28_Witness ==
  /\ pc = "returned"
  /\ Len(tasks) = 2
  /\ tasks[1].src # tasks[2].src
  /\ tasks[1].ret # <<>>
  /\ tasks[2].ret # <<>>
  /\ results[tasks[1].src] = tasks[1].ret
  /\ results[tasks[2].src] = tasks[2].ret

\* Request r has created its search_progress entry and has not answered.
Handling(r) == requests[r].pc \in {"searching", "synthesizing"}

\* C29, as stated: a request being handled finds its own entry in
\* search_progress, and no other request being handled at the same time has
\* the same search id, so none writes or deletes the entry of another.
C29_EntriesNotShared ==
  \A r \in Requests :
    Handling(r) =>
      /\ requests[r].search_id \in DOMAIN search_progress
      /\ \A o \in Requests \ {r} :
           Handling(o) => requests[o].search_id # requests[r].search_id

\* C30: search_progress holds entries of requests being handled only, and
\* the step in which a request is answered, with a response or with an error,
\* leaves no entry under its search id.
C30_OnlyInFlightEntries ==
  /\ [](\A id \in DOMAIN search_progress :
          \E r \in Requests : Handling(r) /\ requests[r].search_id = id)
  /\ [][\A r \in Requests :
          (Handling(r) /\ requests'[r].pc = "answered")
            => requests[r].search_id \notin DOMAIN search_progress']_vars

\* Request 1 has been answered with results and a synthesis while request
\* 2, which arrived a millisecond later, is still searching: the map holds
\* the entry of request 2 and nothing else.
C30_Witness ==
  /\ requests[1].pc = "answered"
  /\ requests[1].answer.kind = "SearchResponse"
  /\ requests[1].total_results > 0
  /\ requests[2].pc = "searching"
  /\ requests[2].search_id # requests[1].search_id
  /\ DOMAIN search_progress = {requests[2].search_id}

\* C31, as stated: nothing the awaited search begins, neither a strategy nor
\* a request to an upstream service, is begun after the deadline of wait_for
\* has expired, the work of its executor thread included.
C31_NothingBegunAfterExpiry ==
  \A k \in 1..Len(waited.begun) : ~waited.begun[k].expired

\* The sum of the lengths of the lists of a results mapping.
RECURSIVE SumOfLengths(_)
SumOfLengths(entries) ==
  IF entries = <<>> THEN 0
  ELSE Len(Head(entries).results) + SumOfLengths(Tail(entries))

\* Request r has been answered with a SearchResponse.
Responded(r) == requests[r].pc = "answered" /\ requests[r].answer.kind = "SearchResponse"

\* C32, as stated: in every SearchResponse of POST /search, total_results is
\* the sum of the lengths of the lists of its results mapping.
C32_TotalIsSumOfLengths ==
  \A r \in Requests :
    Responded(r) =>
      requests[r].answer.total_results = SumOfLengths(requests[r].answer.results)

\* C33: the results mapping of every SearchResponse of POST /search has one
\* key per requested source and no other key, and the key of a requested
\* source without a registered module (REDDIT) maps to [].
C33_KeysAreRequestedSources ==
  \A r \in Requests :
    Responded(r) =>
      LET entries == requests[r].answer.results
      IN  /\ {entries[k].source : k \in 1..Len(entries)} = Range(requests[r].sources)
          /\ \A j \in 1..Len(entries) : \A k \in 1..Len(entries) :
               entries[j].source = entries[k].source => j = k
          /\ \A k \in 1..Len(entries) :
               entries[k].source \notin DOMAIN setup_modules => entries[k].results = <<>>

\* A request for REDDIT alone has been answered: its results mapping is
\* {reddit: []}.
C33_Witness ==
  /\ Responded(1)
  /\ requests[1].sources = <<REDDIT>>
  /\ requests[1].answer.results = <<Entry(REDDIT, <<>>)>>

\* C34, as stated: the handler awaits the synthesis only with total_results
\* greater than 0, and in a SearchResponse ai_synthesis is None exactly when
\* total_results is 0 and a string otherwise.
C34_SynthesisIffResults ==
  \A r \in Requests :
    /\ requests[r].pc = "synthesizing" => requests[r].total_results > 0
    /\ Responded(r) =>
         /\ (requests[r].answer.ai_synthesis = PyNone)
               = (requests[r].answer.total_results = 0)
         /\ requests[r].answer.total_results > 0
               => requests[r].answer.ai_synthesis.type = "str"

\* C35, as stated: a closed response holds one start event first, one
\* complete event last and, between them, exactly one results or error
\* event for each requested source that has a module: an error event for a
\* source whose search raised, a results event for the others.
C35_EventProtocol ==
  stream.pc = "closed" =>
    LET ev == stream.events
        served == Range(stream.source_list) \cap DOMAIN modules
        Between == 2..(Len(ev) - 1)
    IN  /\ ev[1].type = "start"
        /\ ev[Len(ev)].type = "complete"
        /\ \A k \in Between : ev[k].type \in {"results", "error"} /\ ev[k].source \in served
        /\ \A src \in served : Cardinality({k \in Between : ev[k].source = src}) = 1
        /\ \A i \in 1..Len(stream.tasks) :
             \E k \in Between :
               /\ ev[k].source = stream.tasks[i].src
               /\ (ev[k].type = "error") = (stream.tasks[i].how # "returned")

\* C36, as stated: a response that has begun to stream is closed with its
\* complete event in the end, the search of one source never returning.
C36_EventuallyComplete ==
  [](stream.pc = "streaming" => <>(stream.pc = "closed"))

\* C38, as stated: whatever the sources parameter names, the response
\* launches at least one search task.
C38_SomeTaskLaunched ==
  stream.pc # "idle" => Len(stream.tasks) >= 1

\* C37: in a Wikipedia search whose title search answered, a title among
\* the first max_results whose summary or url could not be fetched is left
\* out, and it alone: every title that was fetched has its result, with its
\* own url and summary, and the results follow the order of the titles.
C37_FailedTitleDroppedAlone ==
  \A i \in 1..Len(tasks) :
    (/\ tasks[i].state = "done"
     /\ tasks[i].src = WIKIPEDIA
     /\ upstream[i].fault = "none"
     /\ upstream[i].replies[1].kind = "ok")
    => LET f == Take(upstream[i].replies[1].fetches, n)
           ret == tasks[i].ret
       IN  /\ tasks[i].how = "returned"
           /\ \A j \in 1..Len(f) :
                /\ f[j] = "ok" =>
                     \E p \in 1..Len(ret) :
                       ret[p] = SearchResult(WIKIPEDIA, Txt("title", "wikipedia", j),
                                             Txt("url", "wikipedia", j),
                                             Txt("summary", "wikipedia", j))
                /\ f[j] \in {"error", "disambig_error", "disambig_empty"} =>
                     \A p \in 1..Len(ret) : ret[p].title[3] # j
           /\ Len(ret) = Cardinality({j \in 1..Len(f) : f[j] \in {"ok", "disambig_ok"}})
           /\ \A p \in 1..Len(ret) : \A q \in 1..Len(ret) :
                p < q => ret[p].title[3] < ret[q].title[3]

\* Two titles found, the fetch of the first failing: the result of the
\* second is returned.
C37_Witness ==
  /\ pc = "returned"
  /\ Len(tasks) = 1
  /\ tasks[1].src = WIKIPEDIA
  /\ n = 2
  /\ upstream[1].fault = "none"
  /\ upstream[1].replies[1] = WikiReply("ok", <<"error", "ok">>)
  /\ results[WIKIPEDIA] = <<SearchResult(WIKIPEDIA, Txt("title", "wikipedia", 2),
                                         Txt("url", "wikipedia", 2),
                                         Txt("summary", "wikipedia", 2))>>

====
